---------------------------- MODULE Spec2Model ----------------------------
(***************************************************************************)
(* A model of No-Code-ML-Pipeline: the numeric library                     *)
(* (src/unnamed/part_000: scalers, train/test split, logistic regression,  *)
(* decision tree, accuracy and confusion matrix) and the wizard that       *)
(* drives it (PipelineBuilder.tsx and the views of its stages).            *)
(*                                                                         *)
(* Numbers.  A JavaScript number is modelled as an exact rational          *)
(* <<num, den>> in lowest terms with den > 0, or as NaN == <<0, 0>>.  The  *)
(* scalers round every result to SignificandBits bits, to nearest with     *)
(* ties to even, as floating-point arithmetic does.  Array positions are   *)
(* 1-based here and 0-based in the source, so the source's index k is      *)
(* position k + 1, while the VALUES of the split's index array and the     *)
(* tree's feature index stay 0-based.                                      *)
(***************************************************************************)
EXTENDS Integers, Sequences, FiniteSets, TLC

\* ------------------------------------------------------------ bounds
\* Largest number of rows of an input of trainTestSplit.
MaxSplitRows == 3
\* Largest length of the label vectors handed to the evaluator.
MaxEvalLen == 3
\* Largest number of rows of a training set of the decision tree.
MaxTreeRows == 3
\* Largest maxDepth the decision tree is built with.
MaxTreeDepth == 2
\* Largest number of rows of a training set of the logistic regression.
MaxLRRows == 2
\* Largest number of iterations of the logistic regression.
MaxIterations == 2
\* Largest number of rows of a matrix handed to a scaler.
MaxScaleRows == 3

\* ------------------------------------------------------------- state
\* One call of trainTestSplit.
VARIABLES
  ttsX,          \* X
  ttsY,          \* y
  testSize,      \* testSize, a number
  shuffle,       \* shuffle
  indices,       \* indices, values 0-based
  ttsI,          \* the shuffle loop's i
  trainIndices,  \* trainIndices
  testIndices,   \* testIndices
  ttsOut,        \* the returned ProcessedData
  ttsPc          \* "idle" | "shuffle" | "slice" | "done"

ttsVars == <<ttsX, ttsY, testSize, shuffle, indices, ttsI, trainIndices,
             testIndices, ttsOut, ttsPc>>

\* One pair of label vectors handed to calculateAccuracy and confusionMatrix.
VARIABLES
  yTrue,      \* yTrue
  yPred,      \* yPred
  accuracy,   \* what calculateAccuracy returned
  matrix,     \* what confusionMatrix returned
  evDone      \* which of the two has returned: a subset of {"accuracy", "matrix"}

evVars == <<yTrue, yPred, accuracy, matrix, evDone>>

\* One call of decisionTreeClassifier and a call of predictDecisionTree with
\* the tree it returned.
VARIABLES
  dtX,              \* X_train
  dtY,              \* y_train
  maxDepth,         \* maxDepth
  minSamplesSplit,  \* minSamplesSplit
  tree,             \* the returned TreeNode, or TypeError once dtPc is "threw"
  dtXp,             \* the X of predictDecisionTree
  dtPred,           \* what predictDecisionTree returned
  dtPc              \* "idle" | "call" | "trained" | "threw" | "predicted"

dtVars == <<dtX, dtY, maxDepth, minSamplesSplit, tree, dtXp, dtPred, dtPc>>

\* One call of logisticRegression and a call of predictLogistic, with the
\* model it returned or with a model given.
VARIABLES
  lrX,           \* X_train
  lrY,           \* y_train
  learningRate,  \* learningRate
  iterations,    \* iterations
  weights,       \* weights
  bias,          \* bias
  iter,          \* iter
  lrXp,          \* the X of predictLogistic
  lrPred,        \* what predictLogistic returned
  lrPc           \* "idle" | "loop" | "returned" | "given" | "predicted"

lrVars == <<lrX, lrY, learningRate, iterations, weights, bias, iter, lrXp,
            lrPred, lrPc>>

\* One call of standardScaler or minMaxScaler.
VARIABLES
  scData,    \* data
  scaler,    \* which of the two is called: "standard" | "minmax"
  scOut,     \* the returned matrix
  scPc       \* "idle" | "call" | "done"

scVars == <<scData, scaler, scOut, scPc>>

\* The PipelineBuilder component (src/src/components/pipeline/
\* PipelineBuilder.tsx): its PipelineState, the notification it showed last,
\* and a run of handleTrain with its locals.
VARIABLES
  currentStage,     \* state.currentStage
  dataset,          \* state.dataset, or Null
  config,           \* state.config
  results,          \* state.results, or Null
  isProcessing,     \* state.isProcessing
  error,            \* state.error, or Null
  completedStages,  \* state.completedStages
  toasted,          \* the toast shown last, or Null
  trainPc,          \* handleTrain: "idle" | "extract" | "compute" | "evaluated"
  trainX,           \* handleTrain's X after line 100
  trainY,           \* handleTrain's y after line 105
  trainCalls        \* the calls of the library made by lines 107-133, in order

stateVars == <<currentStage, dataset, config, results, isProcessing, error,
               completedStages>>
trainLocals == <<trainX, trainY, trainCalls>>
pbVars == <<stateVars, toasted, trainPc, trainLocals>>

\* DatasetUpload (DatasetUpload.tsx): the loads of files it has started.
VARIABLES
  isLoading,    \* the isLoading state of line 20
  uploadError,  \* the error state of line 19, or NullString
  inFlight,     \* the files whose load has started and not completed, in
                \* the order they were chosen
  chosen,       \* the names of the files handed to handleFile, in order
  handed        \* the file names of the datasets handed to onDatasetLoaded,
                \* in order

duVars == <<isLoading, uploadError, inFlight, chosen, handed>>

\* What a step of one operation leaves alone: the state of the others.
ttsOnly == UNCHANGED <<evVars, dtVars, lrVars, scVars, pbVars,
                    duVars>>
evOnly == UNCHANGED <<ttsVars, dtVars, lrVars, scVars, pbVars,
                    duVars>>
dtOnly == UNCHANGED <<ttsVars, evVars, lrVars, scVars, pbVars,
                    duVars>>
lrOnly == UNCHANGED <<ttsVars, evVars, dtVars, scVars, pbVars,
                    duVars>>
scOnly == UNCHANGED <<ttsVars, evVars, dtVars, lrVars, pbVars,
                    duVars>>
pbOnly == UNCHANGED <<ttsVars, evVars, dtVars, lrVars, scVars,
                    duVars>>
duOnly == UNCHANGED <<ttsVars, evVars, dtVars, lrVars, scVars,
                      toasted, trainPc, trainLocals>>

\* ------------------------------------------------------- JS numbers
NaN == <<0, 0>>

Abs(n) == IF n < 0 THEN -n ELSE n

RECURSIVE Gcd(_, _)
Gcd(a, b) == IF b = 0 THEN a ELSE Gcd(b, a % b)

\* The number n / d for integers n and d # 0, in lowest terms.
Norm(n, d) ==
  LET g == Gcd(Abs(n), Abs(d))
      s == IF d < 0 THEN -1 ELSE 1
  IN  <<(s * n) \div g, (s * d) \div g>>

R(n) == <<n, 1>>

IsNaN(a) == a[2] = 0

Add(a, b) ==
  IF IsNaN(a) \/ IsNaN(b) THEN NaN
  ELSE Norm(a[1] * b[2] + b[1] * a[2], a[2] * b[2])

Sub(a, b) ==
  IF IsNaN(a) \/ IsNaN(b) THEN NaN
  ELSE Norm(a[1] * b[2] - b[1] * a[2], a[2] * b[2])

Mul(a, b) ==
  IF IsNaN(a) \/ IsNaN(b) THEN NaN
  ELSE Norm(a[1] * b[1], a[2] * b[2])

\* a / b.  0 / 0 is NaN.  A non-zero number is never divided by zero in the
\* library (every divisor that can be 0 is a length, and its dividend is then
\* an empty sum), so that case has no value here and TLC would stop on it.
Div(a, b) ==
  CASE IsNaN(a) \/ IsNaN(b) -> NaN
    [] b[1] = 0 /\ a[1] = 0 -> NaN
    [] b[1] # 0 -> Norm(a[1] * b[2], a[2] * b[1])

\* Comparisons: every comparison with NaN is false.
Geq(a, b) == ~IsNaN(a) /\ ~IsNaN(b) /\ a[1] * b[2] >= b[1] * a[2]
Gt(a, b)  == ~IsNaN(a) /\ ~IsNaN(b) /\ a[1] * b[2] > b[1] * a[2]
Leq(a, b) == ~IsNaN(a) /\ ~IsNaN(b) /\ a[1] * b[2] <= b[1] * a[2]

\* Math.floor of a finite number, as an integer.
Floor(a) == a[1] \div a[2]

\* A JS number is a binary floating-point number: every sum, difference,
\* product and quotient is the exact result rounded to the nearest number
\* with a significand of so many bits, a tie going to the even significand.
\* The width is 53 for a double; it is narrowed here, which keeps what a
\* rounding does to a result and puts it in reach of small inputs.  The
\* exponent is not bounded (no overflow, no underflow).
SignificandBits == 3

RECURSIVE Pow2(_)
Pow2(e) == IF e = 0 THEN 1 ELSE 2 * Pow2(e - 1)

\* a * 2^e for an integer e of either sign.
Scale(a, e) ==
  IF e >= 0 THEN Mul(a, R(Pow2(e))) ELSE Div(a, R(Pow2(-e)))

\* The exponent e for which a * 2^(-e), a > 0, has exactly SignificandBits
\* bits before the binary point.
RECURSIVE Exponent(_, _)
Exponent(a, e) ==
  CASE Geq(Scale(a, -e), R(Pow2(SignificandBits))) -> Exponent(a, e + 1)
    [] ~Geq(Scale(a, -e), R(Pow2(SignificandBits - 1))) -> Exponent(a, e - 1)
    [] OTHER -> e

\* Round to nearest, ties to even, of a number a >= 0 to an integer.
RoundHalfEven(a) ==
  LET m == Floor(a)
      rest == Sub(a, R(m))
  IN  IF Gt(rest, <<1, 2>>) \/ (rest = <<1, 2>> /\ m % 2 = 1) THEN m + 1
      ELSE m

\* The floating-point number nearest to the exact result a.
Fl(a) ==
  IF IsNaN(a) \/ a[1] = 0 THEN a
  ELSE
    LET s == IF a[1] < 0 THEN -1 ELSE 1
        abs == <<Abs(a[1]), a[2]>>
        e == Exponent(abs, 0)
    IN  Scale(R(s * RoundHalfEven(Scale(abs, -e))), e)

\* The operators +, -, * and / of the language on floating-point numbers.
FAdd(a, b) == Fl(Add(a, b))
FSub(a, b) == Fl(Sub(a, b))
FMul(a, b) == Fl(Mul(a, b))
FDiv(a, b) == Fl(Div(a, b))

\* ------------------------------------------------------ input domains
\* All sequences over S of length 0..n.
SeqsUpTo(S, n) == UNION {[1..k -> S] : k \in 0..n}

\* The sequences over S of length exactly n.
SeqsOf(S, n) == [1..n -> S]

\* Array.prototype.map over the positions of a sequence.
Range(s) == {s[k] : k \in DOMAIN s}

\* ------------------------------------------------- trainTestSplit
\* Rows and labels the split is called with.
SplitRowSet == {<<0>>, <<1>>}
SplitLabels == {0, 1}
\* Test fractions; each is a dyadic fraction, for which the double
\* arithmetic of 1 - testSize and of the product with a small length is exact.
TestSizes == {R(0), <<1, 4>>, <<1, 2>>, <<3, 4>>, R(1)}

\* Array.from({ length: n }, (_, i) => i)
IotaIndices(n) == [k \in 1..n |-> k - 1]

\* [indices[i], indices[j]] = [indices[j], indices[i]], i and j 0-based.
LostSwap(ind, i, j) == [ind EXCEPT ![i + 1] = ind[j + 1]]
Swap(ind, i, j) == [ind EXCEPT ![i + 1] = ind[j + 1], ![j + 1] = ind[i + 1]]

\* Math.floor(X.length * (1 - testSize))
SplitIndexOfTestShare(n, ts) == Floor(Mul(R(n), ts))
SplitIndex(n, ts) == Floor(Mul(R(n), Sub(R(1), ts)))

\* indices.slice(0, splitIndex) and indices.slice(splitIndex), for
\* 0 <= splitIndex <= indices.length.
SliceTo(s, k) == SubSeq(s, 1, k)
SliceFrom(s, k) == SubSeq(s, k + 1, Len(s))

\* idx.map(i => a[i])
MapIndex(idx, a) == [k \in DOMAIN idx |-> a[idx[k] + 1]]

ttsIdle ==
  /\ ttsX = <<>> /\ ttsY = <<>> /\ testSize = R(0) /\ shuffle = FALSE
  /\ indices = <<>> /\ ttsI = 0 /\ trainIndices = <<>> /\ testIndices = <<>>
  /\ ttsOut = <<>> /\ ttsPc = "idle"

\* A call trainTestSplit(X, y, testSize, shuffle), after line 72.
ttsCall(X, y, ts, sh) ==
  /\ ttsX = X /\ ttsY = y /\ testSize = ts /\ shuffle = sh
  /\ indices = IotaIndices(Len(X))
  /\ ttsI = Len(X) - 1
  /\ trainIndices = <<>> /\ testIndices = <<>> /\ ttsOut = <<>>
  /\ ttsPc = IF sh THEN "shuffle" ELSE "slice"

\* The call of the specification's example: 100 rows, testSize 0.25, no shuffle.
ttsExampleX == [k \in 1..100 |-> <<k % 2>>]
ttsExampleY == [k \in 1..100 |-> (k \div 2) % 2]

ttsInit ==
  \/ \E n \in 0..MaxSplitRows :
       \E X \in SeqsOf(SplitRowSet, n), y \in SeqsOf(SplitLabels, n),
          ts \in TestSizes, sh \in BOOLEAN :
         ttsCall(X, y, ts, sh)
  \/ ttsCall(ttsExampleX, ttsExampleY, <<1, 4>>, FALSE)

\* One pass of the loop of lines 75-78: j = Math.floor(Math.random() * (i + 1))
\* is any index of 0..i.
ShuffleStep ==
  /\ ttsPc = "shuffle"
  /\ ttsI > 0
  /\ \E j \in 0..ttsI : indices' = Swap(indices, ttsI, j)
  /\ ttsI' = ttsI - 1
  /\ UNCHANGED <<ttsX, ttsY, testSize, shuffle, trainIndices, testIndices,
                 ttsOut, ttsPc>>
  /\ ttsOnly

\* The loop's exit, i > 0 being false.
ShuffleExit ==
  /\ ttsPc = "shuffle"
  /\ ~(ttsI > 0)
  /\ ttsPc' = "slice"
  /\ UNCHANGED <<ttsX, ttsY, testSize, shuffle, indices, ttsI, trainIndices,
                 testIndices, ttsOut>>
  /\ ttsOnly

\* Lines 81-90.
SliceAndReturn ==
  /\ ttsPc = "slice"
  /\ LET splitIndex == SplitIndex(Len(ttsX), testSize)
         tr == SliceTo(indices, splitIndex)
         te == SliceFrom(indices, splitIndex)
     IN  /\ trainIndices' = tr
         /\ testIndices' = te
         /\ ttsOut' = [X_train |-> MapIndex(tr, ttsX),
                       X_test  |-> MapIndex(te, ttsX),
                       y_train |-> MapIndex(tr, ttsY),
                       y_test  |-> MapIndex(te, ttsY)]
  /\ ttsPc' = "done"
  /\ UNCHANGED <<ttsX, ttsY, testSize, shuffle, indices, ttsI>>
  /\ ttsOnly

ttsNext == ShuffleStep \/ ShuffleExit \/ SliceAndReturn

\* ---------------------------------- calculateAccuracy, confusionMatrix
\* The values the label vectors of the evaluator hold.
EvalLabels == {0, 1, 2}

\* A filter on val !== yPred[i].
RECURSIVE FilterDiffering(_, _, _)
FilterDiffering(yt, yp, k) ==
  IF k > Len(yt) THEN <<>>
  ELSE (IF yt[k] # yp[k] THEN <<yt[k]>> ELSE <<>>) \o FilterDiffering(yt, yp, k + 1)
\* yTrue.filter((val, i) => val === yPred[i]), from position k on.
RECURSIVE FilterMatching(_, _, _)
FilterMatching(yt, yp, k) ==
  IF k > Len(yt) THEN <<>>
  ELSE (IF yt[k] = yp[k] THEN <<yt[k]>> ELSE <<>>) \o FilterMatching(yt, yp, k + 1)

\* calculateAccuracy(yTrue, yPred), lines 284-288.
AccuracyUnguarded(yt, yp) ==
  Div(R(Len(FilterMatching(yt, yp, 1))), R(Len(yt)))
CalculateAccuracy(yt, yp) ==
  IF Len(yt) = 0 THEN R(0)
  ELSE Div(R(Len(FilterMatching(yt, yp, 1))), R(Len(yt)))

\* [...S].sort((a, b) => a - b): the elements of a set of integers, ascending.
RECURSIVE SortAscending(_)
SortAscending(S) ==
  IF S = {} THEN <<>>
  ELSE LET m == CHOOSE v \in S : \A w \in S : v <= w
       IN  <<m>> \o SortAscending(S \ {m})

\* labels.indexOf(v): the 0-based position of the first element equal to v,
\* -1 when there is none.
IndexOf(s, v) ==
  IF \E k \in DOMAIN s : s[k] = v
  THEN (CHOOSE k \in DOMAIN s : s[k] = v /\ \A h \in 1..(k - 1) : s[h] # v) - 1
  ELSE -1

\* matrix[a][p]++, a and p 0-based.
IncrementTransposed(m, a, p) == [m EXCEPT ![p + 1][a + 1] = @ + 1]
Increment(m, a, p) == [m EXCEPT ![a + 1][p + 1] = @ + 1]

\* The forEach of lines 295-300, from position k on.
RECURSIVE CountPairs(_, _, _, _, _)
CountPairs(m, labels, yt, yp, k) ==
  IF k > Len(yt) THEN m
  ELSE LET actualIdx == IndexOf(labels, yt[k])
           predictedIdx == IndexOf(labels, yp[k])
       IN  CountPairs(Increment(m, actualIdx, predictedIdx), labels, yt, yp, k + 1)

\* The labels of line 292.
MatrixLabels(yt, yp) == SortAscending(Range(yt) \cup Range(yp))

\* confusionMatrix(yTrue, yPred), lines 291-303.
ConfusionMatrix(yt, yp) ==
  LET labels == MatrixLabels(yt, yp)
      zero == [a \in DOMAIN labels |-> [p \in DOMAIN labels |-> 0]]
  IN  CountPairs(zero, labels, yt, yp, 1)

evIdle ==
  /\ yTrue = <<>> /\ yPred = <<>> /\ accuracy = R(0) /\ matrix = <<>>
  /\ evDone = {"idle"}

\* Two label vectors of one length.
evInit ==
  \E n \in 0..MaxEvalLen :
    \E yt \in SeqsOf(EvalLabels, n), yp \in SeqsOf(EvalLabels, n) :
      /\ yTrue = yt /\ yPred = yp
      /\ accuracy = R(0) /\ matrix = <<>> /\ evDone = {}

CallCalculateAccuracy ==
  /\ "idle" \notin evDone /\ "accuracy" \notin evDone
  /\ accuracy' = CalculateAccuracy(yTrue, yPred)
  /\ evDone' = evDone \cup {"accuracy"}
  /\ UNCHANGED <<yTrue, yPred, matrix>>
  /\ evOnly

CallConfusionMatrix ==
  /\ "idle" \notin evDone /\ "matrix" \notin evDone
  /\ matrix' = ConfusionMatrix(yTrue, yPred)
  /\ evDone' = evDone \cup {"matrix"}
  /\ UNCHANGED <<yTrue, yPred, accuracy>>
  /\ evOnly

evNext == CallCalculateAccuracy \/ CallConfusionMatrix

\* ------------------------------------------------ decision tree
\* Rows of two features, labels and minSamplesSplit values the tree is built
\* with.
TreeRowSet == {<<0, 0>>, <<0, 1>>, <<1, 0>>, <<2, 1>>}
TreeLabels == {0, 1}
MinSamplesSplits == {0, 2, 3}

\* What a call that throws leaves in place of its result:
\* "TypeError: Reduce of empty array with no initial value".
TypeError == [error |-> "TypeError"]
Threw(t) == "error" \in DOMAIN t

\* [...new Set(y)]: the distinct elements of y in order of first occurrence.
RECURSIVE Distinct(_)
Distinct(y) ==
  IF y = <<>> THEN <<>>
  ELSE LET front == Distinct(SubSeq(y, 1, Len(y) - 1))
           last == y[Len(y)]
       IN  IF last \in Range(front) THEN front ELSE Append(front, last)

\* The number of elements of y equal to v.
CountOf(y, v) == Cardinality({k \in DOMAIN y : y[k] = v})

\* String(n) of an integer n, as its sequence of characters.
Digit(d) == <<"0", "1", "2", "3", "4", "5", "6", "7", "8", "9">>[d + 1]
RECURSIVE Digits(_)
Digits(n) == IF n < 10 THEN <<Digit(n)>> ELSE Append(Digits(n \div 10), Digit(n % 10))
NumberToString(n) == IF n < 0 THEN <<"-">> \o Digits(-n) ELSE Digits(n)

\* parseInt(s): the integer of the longest prefix of s that is an optional
\* sign and digits.  (No key of a count table lacks a digit, the case in
\* which parseInt returns NaN.)
DigitValue(c) == CHOOSE d \in 0..9 : Digit(d) = c
IsDigit(c) == \E d \in 0..9 : Digit(d) = c
RECURSIVE ParseDigits(_, _, _)
ParseDigits(s, k, acc) ==
  IF k > Len(s) \/ ~IsDigit(s[k]) THEN acc
  ELSE ParseDigits(s, k + 1, 10 * acc + DigitValue(s[k]))
ParseInt(s) ==
  IF s # <<>> /\ s[1] = "-" THEN -ParseDigits(s, 2, 0) ELSE ParseDigits(s, 1, 0)

\* The keys of the count table of y in the order Object.entries and
\* Object.values go through them: the keys that are array indices (integers
\* >= 0) first, in ascending order, then the other keys in the order they
\* were first set.
CountKeys(y) ==
  SortAscending({v \in Range(y) : v >= 0}) \o SelectSeq(Distinct(y), LAMBDA v : v < 0)

\* Object.values(counts)
CountValues(y) ==
  LET keys == CountKeys(y) IN [k \in DOMAIN keys |-> CountOf(y, keys[k])]

\* Object.entries(counts): [key, count], the key a string.
CountEntries(y) ==
  LET keys == CountKeys(y)
  IN  [k \in DOMAIN keys |-> <<NumberToString(keys[k]), CountOf(y, keys[k])>>]

\* entries.reduce((a, b) => a[1] > b[1] ? a : b), folded from position k on
\* with accumulator a.
RECURSIVE ReduceMax(_, _, _)
ReduceMax(entries, k, a) ==
  IF k > Len(entries) THEN a
  ELSE ReduceMax(entries, k + 1, IF a[2] > entries[k][2] THEN a ELSE entries[k])

\* Lines 183-188 and 232-237: the majority leaf of y.  reduce without an
\* initial value throws a TypeError on an empty array.
MajorityLeaf(y) ==
  LET entries == CountEntries(y)
  IN  IF entries = <<>> THEN TypeError
      ELSE [prediction |-> ParseInt(ReduceMax(entries, 2, entries[1])[1])]

\* The forEach of lines 162-165 from position k of the counts on.
RECURSIVE SubtractSquares(_, _, _, _)
SubtractSquares(impurity, counts, n, k) ==
  IF k > Len(counts) THEN impurity
  ELSE LET prob == Div(R(counts[k]), R(n))
       IN  SubtractSquares(Sub(impurity, Mul(prob, prob)), counts, n, k + 1)

\* giniImpurity(y), lines 157-167.
GiniImpurity(y) ==
  IF Len(y) = 0 THEN R(0)
  ELSE SubtractSquares(R(1), CountValues(y), Len(y), 1)

\* The positions (1-based) of the rows with row[feature] <= threshold, and of
\* the others, in ascending order: leftIndices and rightIndices.
LeftIndices(X, feature, threshold) ==
  SelectSeq([k \in 1..Len(X) |-> k],
            LAMBDA k : Leq(R(X[k][feature + 1]), threshold))
RightIndices(X, feature, threshold) ==
  SelectSeq([k \in 1..Len(X) |-> k],
            LAMBDA k : ~Leq(R(X[k][feature + 1]), threshold))

\* idx.map(i => a[i]) for 1-based positions.
Pick(idx, a) == [k \in DOMAIN idx |-> a[idx[k]]]

\* The sorted distinct values of a feature, line 199.
FeatureValues(X, feature) == SortAscending({X[k][feature + 1] : k \in DOMAIN X})

\* X[0]?.length || 0
NumFeatures(X) == IF Len(X) = 0 THEN 0 ELSE Len(X[1])

\* gain > bestGain, line 223.
GainNotWorse(gain, bestGain) == Geq(gain, bestGain)
GainImproves(gain, bestGain) == Gt(gain, bestGain)

\* The inner loop of lines 201-228 for one feature, from i (0-based) on; best
\* is [gain, feature, threshold], the three variables of lines 192-194.
RECURSIVE SearchThresholds(_, _, _, _, _, _, _)
SearchThresholds(X, y, currentImpurity, feature, values, i, best) ==
  IF ~(i < Len(values) - 1) THEN best
  ELSE
    LET threshold == Div(R(values[i + 1] + values[i + 2]), R(2))
        leftY == Pick(LeftIndices(X, feature, threshold), y)
        rightY == Pick(RightIndices(X, feature, threshold), y)
        gain == Sub(Sub(currentImpurity,
                        Mul(Div(R(Len(leftY)), R(Len(y))), GiniImpurity(leftY))),
                    Mul(Div(R(Len(rightY)), R(Len(y))), GiniImpurity(rightY)))
    IN  IF Len(leftY) = 0 \/ Len(rightY) = 0
        THEN SearchThresholds(X, y, currentImpurity, feature, values, i + 1, best)
        ELSE IF GainImproves(gain, best.gain)
        THEN SearchThresholds(X, y, currentImpurity, feature, values, i + 1,
                              [gain |-> gain, feature |-> feature,
                               threshold |-> threshold])
        ELSE SearchThresholds(X, y, currentImpurity, feature, values, i + 1, best)

\* The outer loop of lines 198-229, from feature on.
RECURSIVE SearchFeatures(_, _, _, _, _)
SearchFeatures(X, y, currentImpurity, feature, best) ==
  IF ~(feature < NumFeatures(X)) THEN best
  ELSE SearchFeatures(X, y, currentImpurity, feature + 1,
                      SearchThresholds(X, y, currentImpurity, feature,
                                       FeatureValues(X, feature), 0, best))

\* Lines 192-229: bestGain, bestFeature, bestThreshold after the search.
BestSplit(X, y) ==
  SearchFeatures(X, y, GiniImpurity(y), 0,
                 [gain |-> R(0), feature |-> 0, threshold |-> R(0)])

\* { prediction: uniqueLabels[0] }, line 180.
PureLeafOfLength(uniqueLabels) == [prediction |-> Len(uniqueLabels)]
PureLeaf(uniqueLabels) == [prediction |-> uniqueLabels[1]]

\* depth >= maxDepth, line 182.
DepthExceeded(depth, maxD) == depth > maxD
DepthReached(depth, maxD) == depth >= maxD

\* X.length < minSamplesSplit, line 182.
TooFewRowsByTwo(X, minS) == Len(X) < minS - 1
TooFewRows(X, minS) == Len(X) < minS

\* buildTree(X, y, depth), lines 176-264, with the maxDepth and
\* minSamplesSplit of the enclosing call.  A throw of a recursive call
\* passes through.
RECURSIVE BuildTree(_, _, _, _, _)
BuildTree(X, y, depth, maxD, minS) ==
  LET uniqueLabels == Distinct(y)
  IN  IF Len(uniqueLabels) = 1 THEN PureLeaf(uniqueLabels)
      ELSE IF DepthReached(depth, maxD) \/ TooFewRows(X, minS)
      THEN MajorityLeaf(y)
      ELSE
        LET best == BestSplit(X, y)
        IN  IF best.gain = R(0) THEN MajorityLeaf(y)
            ELSE
              LET leftIndices == LeftIndices(X, best.feature, best.threshold)
                  rightIndices == RightIndices(X, best.feature, best.threshold)
                  left == BuildTree(Pick(leftIndices, X), Pick(leftIndices, y),
                                    depth + 1, maxD, minS)
                  right == BuildTree(Pick(rightIndices, X), Pick(rightIndices, y),
                                     depth + 1, maxD, minS)
              IN  IF Threw(left) THEN left
                  ELSE IF Threw(right) THEN right
                  ELSE [feature |-> best.feature, threshold |-> best.threshold,
                        left |-> left, right |-> right]

\* decisionTreeClassifier(X_train, y_train, maxDepth, minSamplesSplit)
DecisionTreeClassifier(X, y, maxD, minS) == BuildTree(X, y, 0, maxD, minS)

\* predictSingle(x, node), lines 270-278.
RECURSIVE PredictSingle(_, _)
PredictSingle(x, node) ==
  IF "prediction" \in DOMAIN node THEN node.prediction
  ELSE IF Leq(R(x[node.feature + 1]), node.threshold)
  THEN PredictSingle(x, node.left)
  ELSE PredictSingle(x, node.right)

\* predictDecisionTree(X, tree)
PredictDecisionTree(X, t) == [k \in DOMAIN X |-> PredictSingle(X[k], t)]

\* A matrix holding every row of the domain once.
RECURSIVE SeqOfSet(_)
SeqOfSet(S) ==
  IF S = {} THEN <<>>
  ELSE LET r == CHOOSE r \in S : TRUE IN <<r>> \o SeqOfSet(S \ {r})
AllTreeRows == SeqOfSet(TreeRowSet)

\* The matrices predictDecisionTree is called with after a training on X:
\* none, the training rows, every row there is.
TreePredictInputs(X) == {<<>>, X, AllTreeRows}

dtIdle ==
  /\ dtX = <<>> /\ dtY = <<>> /\ maxDepth = 0 /\ minSamplesSplit = 0
  /\ tree = <<>> /\ dtXp = <<>> /\ dtPred = <<>> /\ dtPc = "idle"

\* A training set of four rows on which no split separates the labels: each
\* side of every split holds as many rows of label 0 as of label 1.
dtExampleX == <<<<0, 0>>, <<0, 1>>, <<1, 0>>, <<1, 1>>>>
dtExampleY == <<0, 1, 1, 0>>

dtCall(X, y) ==
  \E d \in 0..MaxTreeDepth, m \in MinSamplesSplits :
    /\ dtX = X /\ dtY = y /\ maxDepth = d /\ minSamplesSplit = m
    /\ tree = <<>> /\ dtXp = <<>> /\ dtPred = <<>> /\ dtPc = "call"

dtInit ==
  \/ \E n \in 0..MaxTreeRows :
       \E X \in SeqsOf(TreeRowSet, n), y \in SeqsOf(TreeLabels, n) :
         dtCall(X, y)
  \/ dtCall(dtExampleX, dtExampleY)

\* decisionTreeClassifier returns a tree, or throws.
TrainTree ==
  /\ dtPc = "call"
  /\ \E t \in {DecisionTreeClassifier(dtX, dtY, maxDepth, minSamplesSplit)} :
       /\ tree' = t
       /\ dtPc' = IF Threw(t) THEN "threw" ELSE "trained"
  /\ UNCHANGED <<dtX, dtY, maxDepth, minSamplesSplit, dtXp, dtPred>>
  /\ dtOnly

PredictTree ==
  /\ dtPc = "trained"
  /\ \E Xp \in TreePredictInputs(dtX) :
       /\ dtXp' = Xp
       /\ dtPred' = PredictDecisionTree(Xp, tree)
  /\ dtPc' = "predicted"
  /\ UNCHANGED <<dtX, dtY, maxDepth, minSamplesSplit, tree>>
  /\ dtOnly

dtNext == TrainTree \/ PredictTree

\* ------------------------------------------------ logistic regression
\* Rows of two features, labels and learning rates of a training, and the
\* weights and biases predictLogistic is given.
LRRowSet == {<<a, b>> : a \in {0, 1}, b \in {0, 1}}
LRLabels == {0, 1}
LearningRates == {<<1, 10>>, R(1)}
GivenWeights == {R(-1), R(0), R(1)}
GivenBiases == {R(-1), R(0), <<1, 2>>, NaN}

\* Math.max(-500, Math.min(500, x)); both return NaN for a NaN argument.
Clamp(x) ==
  IF IsNaN(x) THEN NaN
  ELSE LET low == IF Leq(R(500), x) THEN R(500) ELSE x
       IN  IF Geq(R(-500), low) THEN R(-500) ELSE low

\* sigmoid(x), lines 94-96.  exp has no exact value to compute with, so of
\* 1 / (1 + exp(-c)), c the clamped argument, the model keeps on which side
\* of 1/2 it lies and leaves its magnitude open: exactly 1/2 for c = 0, where
\* exp(-0) = 1; either of two values above 1/2 for c > 0, where exp(-c) < 1;
\* either of two values below 1/2 for c < 0, where exp(-c) > 1; NaN for NaN.
SigmoidValues(x) ==
  LET c == Clamp(x)
  IN  CASE IsNaN(c) -> {NaN}
        [] ~IsNaN(c) /\ c[1] = 0 -> {<<1, 2>>}
        [] ~IsNaN(c) /\ c[1] > 0 -> {<<5, 8>>, <<7, 8>>}
        [] ~IsNaN(c) /\ c[1] < 0 -> {<<1, 8>>, <<3, 8>>}

\* x.reduce((sum, xi, i) => sum + xi * weights[i], 0) from position k on; a
\* weights[i] past the end of weights is undefined, and the product NaN.
RECURSIVE DotFrom(_, _, _, _)
DotFrom(sum, x, w, k) ==
  IF k > Len(x) THEN sum
  ELSE DotFrom(Add(sum, Mul(R(x[k]), IF k \in DOMAIN w THEN w[k] ELSE NaN)),
               x, w, k + 1)
Dot(x, w) == DotFrom(R(0), x, w, 1)

\* The values predictions can have, lines 110-112: one sigmoid value per row.
SigmoidGrid == {<<1, 8>>, <<3, 8>>, <<1, 2>>, <<5, 8>>, <<7, 8>>, NaN}
Predictions(X, w, b) ==
  {predictions \in [DOMAIN X -> SigmoidGrid] :
     \A i \in DOMAIN X : predictions[i] \in SigmoidValues(Add(Dot(X[i], w), b))}

\* The loop of lines 118-124 from row i (1-based) on: dw and db.
RECURSIVE Gradients(_, _, _, _, _, _)
Gradients(X, y, predictions, i, dw, db) ==
  IF i > Len(X) THEN [dw |-> dw, db |-> db]
  ELSE LET predictionError == Sub(predictions[i], R(y[i]))
       IN  Gradients(X, y, predictions, i + 1,
                     [j \in DOMAIN dw |-> Add(dw[j], Mul(predictionError, R(X[i][j])))],
                     Add(db, predictionError))

\* Lines 127-130: the weights and the bias after the update.
UpdatedWeights(w, rate, dw, n) ==
  [j \in DOMAIN w |-> Sub(w[j], Div(Mul(rate, dw[j]), R(n)))]
UpdatedBias(b, rate, db, n) == Sub(b, Div(Mul(rate, db), R(n)))

\* iter < iterations, line 109.
LoopRunsOnceMore(it, its) == it <= its
LoopRuns(it, its) == it < its

\* prob >= 0.5 ? 1 : 0, line 143.
ClassAboveHalf(prob) == IF Gt(prob, <<1, 2>>) THEN 1 ELSE 0
ClassOf(prob) == IF Geq(prob, <<1, 2>>) THEN 1 ELSE 0

\* The results predictLogistic(X, weights, bias) can have, lines 136-145.
PredictLogistic(X, w, b) ==
  {pred \in [DOMAIN X -> {0, 1}] :
     \A k \in DOMAIN X :
       \E prob \in SigmoidValues(Add(Dot(X[k], w), b)) : pred[k] = ClassOf(prob)}

AllLRRows == SeqOfSet(LRRowSet)

\* The matrices predictLogistic is called with: none, the training rows, every
\* row there is.
LRPredictInputs(X) == {<<>>, X, AllLRRows}

lrIdle ==
  /\ lrX = <<>> /\ lrY = <<>> /\ learningRate = R(0) /\ iterations = 0
  /\ weights = <<>> /\ bias = R(0) /\ iter = 0 /\ lrXp = <<>> /\ lrPred = <<>>
  /\ lrPc = "idle"

\* A call of logisticRegression after lines 105-107, or a model given to
\* predictLogistic.
lrInit ==
  \/ \E n \in 0..MaxLRRows :
       \E X \in SeqsOf(LRRowSet, n), y \in SeqsOf(LRLabels, n),
          rate \in LearningRates, its \in 0..MaxIterations :
         /\ lrX = X /\ lrY = y /\ learningRate = rate /\ iterations = its
         /\ weights = [j \in 1..NumFeatures(X) |-> R(0)]
         /\ bias = R(0) /\ iter = 0
         /\ lrXp = <<>> /\ lrPred = <<>> /\ lrPc = "loop"
  \/ \E w \in SeqsOf(GivenWeights, 2), b \in GivenBiases :
       /\ lrX = <<>> /\ lrY = <<>> /\ learningRate = R(0) /\ iterations = 0
       /\ weights = w /\ bias = b /\ iter = 0
       /\ lrXp = <<>> /\ lrPred = <<>> /\ lrPc = "given"

\* One pass of the loop of lines 109-131.
GradientPass ==
  /\ lrPc = "loop"
  /\ LoopRuns(iter, iterations)
  /\ \E predictions \in Predictions(lrX, weights, bias) :
       LET g == Gradients(lrX, lrY, predictions, 1,
                          [j \in DOMAIN weights |-> R(0)], R(0))
       IN  /\ weights' = UpdatedWeights(weights, learningRate, g.dw, Len(lrX))
           /\ bias' = UpdatedBias(bias, learningRate, g.db, Len(lrX))
  /\ iter' = iter + 1
  /\ UNCHANGED <<lrX, lrY, learningRate, iterations, lrXp, lrPred, lrPc>>
  /\ lrOnly

\* The loop's exit and the return of { weights, bias }.
ReturnModel ==
  /\ lrPc = "loop"
  /\ ~LoopRuns(iter, iterations)
  /\ lrPc' = "returned"
  /\ UNCHANGED <<lrX, lrY, learningRate, iterations, weights, bias, iter, lrXp,
                 lrPred>>
  /\ lrOnly

PredictWithModel ==
  /\ lrPc \in {"returned", "given"}
  /\ \E Xp \in LRPredictInputs(lrX) :
       /\ lrXp' = Xp
       /\ lrPred' \in PredictLogistic(Xp, weights, bias)
  /\ lrPc' = "predicted"
  /\ UNCHANGED <<lrX, lrY, learningRate, iterations, weights, bias, iter>>
  /\ lrOnly

lrNext == GradientPass \/ ReturnModel \/ PredictWithModel

\* ------------------------------------------------------------ scalers
\* Rows of two features the scalers are called with.  Three equal values 3
\* (7 with one more bit of significand) have a sum that is not a number.
ScaleRowSet == {<<R(a), R(b)>> : a \in {-1, 0, 2}, b \in {3, 7}}

\* column.reduce((a, b) => a + b, 0) over numbers, from position k on.
RECURSIVE SumFrom(_, _, _)
SumFrom(sum, column, k) ==
  IF k > Len(column) THEN sum ELSE SumFrom(FAdd(sum, column[k]), column, k + 1)

\* data.map(row => row[j]), j 1-based.
Column(data, j) == [k \in DOMAIN data |-> data[k][j]]

\* Lines 29 and 33: the mean and the variance of a column.
Mean(column) == FDiv(SumFrom(R(0), column, 1), R(Len(column)))
Variance(column) ==
  LET mean == Mean(column)
      squares == [k \in DOMAIN column |->
                    FMul(FSub(column[k], mean), FSub(column[k], mean))]
  IN  FDiv(SumFrom(R(0), squares, 1), R(Len(column)))

\* Math.sqrt(variance) || 1, line 34.  A square root has no exact value to
\* compute with in general, so the divisor is kept as the number it is the
\* square root of: std stands for sqrt(std.squared).  A variance of 0 has the
\* square root 0, in whose place || puts 1, the square root of 1.
StdOrOne(variance) ==
  IF variance = R(0) \/ IsNaN(variance) THEN [squared |-> R(1)]
  ELSE [squared |-> variance]

\* The rows of data without their last entry.
WithoutLastColumn(data) ==
  [k \in DOMAIN data |-> SubSeq(data[k], 1, Len(data[k]) - 1)]

\* standardScaler(data), lines 19-41.  A cell (val - mean) / std of the
\* result is kept as [num, squared], standing for num / sqrt(squared).
StandardScaler(data) ==
  IF Len(data) = 0 THEN data
  ELSE
    LET numFeatures == Len(data[1])
        means == [j \in 1..numFeatures |-> Mean(Column(data, j))]
        stds == [j \in 1..numFeatures |-> StdOrOne(Variance(Column(data, j)))]
    IN  [k \in DOMAIN data |->
          [j \in DOMAIN data[k] |->
            [num |-> FSub(data[k][j], means[j]), squared |-> stds[j].squared]]]

\* Math.min(...column) and Math.max(...column) of a column that is not empty.
FirstOf(column) == column[1]
MinOf(column) ==
  CHOOSE v \in Range(column) : \A w \in Range(column) : Leq(v, w)
MaxOf(column) ==
  CHOOSE v \in Range(column) : \A w \in Range(column) : Geq(v, w)

\* minMaxScaler(data), lines 44-63.
MinMaxScaler(data) ==
  IF Len(data) = 0 THEN data
  ELSE
    LET numFeatures == Len(data[1])
        mins == [j \in 1..numFeatures |-> MinOf(Column(data, j))]
        maxs == [j \in 1..numFeatures |-> MaxOf(Column(data, j))]
    IN  [k \in DOMAIN data |->
          [j \in DOMAIN data[k] |->
            LET range == FSub(maxs[j], mins[j])
            IN  IF range = R(0) THEN R(0)
                ELSE FDiv(FSub(data[k][j], mins[j]), range)]]

scIdle ==
  /\ scData = <<>> /\ scaler = "standard" /\ scOut = <<>> /\ scPc = "idle"

scInit ==
  \E n \in 0..MaxScaleRows :
    \E data \in SeqsOf(ScaleRowSet, n), which \in {"standard", "minmax"} :
      /\ scData = data /\ scaler = which /\ scOut = <<>> /\ scPc = "call"

CallStandardScaler ==
  /\ scPc = "call" /\ scaler = "standard"
  /\ scOut' = StandardScaler(scData)
  /\ scPc' = "done"
  /\ UNCHANGED <<scData, scaler>>
  /\ scOnly

CallMinMaxScaler ==
  /\ scPc = "call" /\ scaler = "minmax"
  /\ scOut' = MinMaxScaler(scData)
  /\ scPc' = "done"
  /\ UNCHANGED <<scData, scaler>>
  /\ scOnly

scNext == CallStandardScaler \/ CallMinMaxScaler

\* ------------------------------------------------- PipelineBuilder
\* null
Null == [null |-> TRUE]

\* A cell of a parsed file: a string (its characters), a number, or undefined
\* for a key the row does not have.
Str(text) == [type |-> "string", text |-> text, number |-> R(0)]
Num(q) == [type |-> "number", text |-> <<>>, number |-> q]
Undefined == [type |-> "undefined", text |-> <<>>, number |-> R(0)]

\* The first position from k on of s that holds no digit.
RECURSIVE DigitsEnd(_, _)
DigitsEnd(s, k) ==
  IF k > Len(s) \/ ~IsDigit(s[k]) THEN k ELSE DigitsEnd(s, k + 1)

RECURSIVE Pow10(_)
Pow10(e) == IF e = 0 THEN 1 ELSE 10 * Pow10(e - 1)

\* Number(s) of a string s without white space: 0 for the empty string; the
\* value of an optional sign, digits, and an optional point with digits;
\* NaN for every other string of the characters used here.
StringToNumber(s) ==
  IF s = <<>> THEN R(0)
  ELSE
    LET start == IF s[1] \in {"-", "+"} THEN 2 ELSE 1
        point == DigitsEnd(s, start)
        hasPoint == point <= Len(s) /\ s[point] = "."
        stop == IF hasPoint THEN DigitsEnd(s, point + 1) ELSE point
        fraction == IF hasPoint THEN stop - point - 1 ELSE 0
        whole == ParseDigits(s, start, 0)
        part == IF hasPoint THEN ParseDigits(s, point + 1, 0) ELSE 0
        sign == IF s[1] = "-" THEN -1 ELSE 1
    IN  IF stop <= Len(s) \/ (point - start) + fraction = 0 THEN NaN
        ELSE Norm(sign * (whole * Pow10(fraction) + part), Pow10(fraction))

\* Number(v) of a cell.
ToNumber(cell) ==
  CASE cell.type = "number" -> cell.number
    [] cell.type = "string" -> StringToNumber(cell.text)
    [] cell.type = "undefined" -> NaN

\* isNaN(val) ? 0 : val, lines 97-98 (and DatasetUpload.tsx lines 39-40).
NumberOrZero(cell) ==
  LET val == ToNumber(cell) IN IF IsNaN(val) THEN R(0) ELSE val

\* DatasetUpload.tsx lines 28-33: the type of the column `name` of the rows
\* data, from its first five values.
ColumnType(data, name) ==
  LET sampleValues == SubSeq(data, 1, IF Len(data) < 5 THEN Len(data) ELSE 5)
      numericCount ==
        Cardinality({k \in DOMAIN sampleValues :
                       /\ ~IsNaN(ToNumber(sampleValues[k][name]))
                       /\ sampleValues[k][name] # Str(<<>>)})
  IN  IF Geq(R(numericCount), Mul(R(Len(sampleValues)), <<4, 5>>))
      THEN "numeric" ELSE "categorical"

\* processData(data, fileName), DatasetUpload.tsx lines 22-54, for rows that
\* are not empty: the Dataset handed to onDatasetLoaded.  names is
\* Object.keys(data[0]).  (numericData and the columns' sampleValues are left
\* out: no handler of PipelineBuilder reads them.)
ProcessData(file) ==
  [rawData |-> file.data,
   columns |-> [k \in DOMAIN file.names |->
                  [name |-> file.names[k],
                   type |-> ColumnType(file.data, file.names[k])]],
   rows |-> Len(file.data),
   fileName |-> file.fileName]

\* Parsed files.  One row.
FileOne ==
  [fileName |-> "one.csv", names |-> <<"a", "b">>,
   data |-> <<[a |-> Str(<<"1">>), b |-> Str(<<"0", ".", "7">>)]>>]

\* Two rows.
FileTwo ==
  [fileName |-> "two.csv", names |-> <<"a", "b">>,
   data |-> <<[a |-> Str(<<"0">>), b |-> Str(<<"0">>)],
              [a |-> Str(<<"2">>), b |-> Str(<<"1">>)]>>]

\* No numeric column.
FileNone ==
  [fileName |-> "none.csv", names |-> <<"t">>,
   data |-> <<[t |-> Str(<<"x">>)]>>]

\* Five rows of a sheet: numbers, a text in the numeric column a, a missing
\* value in the numeric column b, the categorical column t.
FileFive ==
  [fileName |-> "five.xlsx", names |-> <<"a", "b", "t">>,
   data |-> <<[a |-> Num(R(1)),     b |-> Num(<<7, 10>>), t |-> Str(<<"x">>)],
              [a |-> Num(R(2)),     b |-> Num(<<1, 2>>),  t |-> Str(<<"y">>)],
              [a |-> Str(<<"x">>),  b |-> Num(R(1)),      t |-> Str(<<"x">>)],
              [a |-> Num(R(0)),     b |-> Undefined,      t |-> Str(<<"y">>)],
              [a |-> Str(<<"-", "1">>), b |-> Str(<<"0", ".", "5", "1">>),
               t |-> Str(<<"x">>)]>>]

\* One row of three numeric columns.
FileWide ==
  [fileName |-> "wide.csv", names |-> <<"a", "b", "c">>,
   data |-> <<[a |-> Str(<<"1">>), b |-> Str(<<"0">>), c |-> Str(<<"2">>)]>>]

\* The files loaded in the wizard, and those a training run is checked with.
WizardFiles == {FileWide, FileTwo, FileNone}
TrainFiles == {FileOne, FileTwo, FileFive, FileNone}

\* null where a string can stand (config.targetColumn, error): a text that
\* is no column name and no message.
NullString == "<null>"

Stages == <<"upload", "preprocess", "split", "model", "results">>
PreprocessingMethods == {"none", "standard", "minmax"}
ModelTypes == {"logistic", "decision_tree"}

\* The split ratios set in the wizard: the initial 0.2 and the slider's
\* largest, 0.5 (val / 100 for val in 10, 15 .. 50, part_002 lines 103-108).
SplitRatios == {<<1, 5>>, <<1, 2>>}

\* initialState, lines 23-37.
initialState ==
  [currentStage |-> "upload",
   dataset |-> Null,
   config |-> [preprocessing |-> "standard",
               splitRatio |-> <<1, 5>>,
               targetColumn |-> NullString,
               featureColumns |-> <<>>,
               modelType |-> "logistic"],
   results |-> Null,
   isProcessing |-> FALSE,
   error |-> NullString,
   completedStages |-> <<>>]

\* The component's state as one PipelineState.
state ==
  [currentStage |-> currentStage, dataset |-> dataset, config |-> config,
   results |-> results, isProcessing |-> isProcessing, error |-> error,
   completedStages |-> completedStages]

\* The component's state is the PipelineState s.
StateIs(s) ==
  /\ currentStage = s.currentStage
  /\ dataset = s.dataset
  /\ config = s.config
  /\ results = s.results
  /\ isProcessing = s.isProcessing
  /\ error = s.error
  /\ completedStages = s.completedStages

\* setState(next) of a whole PipelineState.
SetState(next) ==
  /\ currentStage' = next.currentStage
  /\ dataset' = next.dataset
  /\ config' = next.config
  /\ results' = next.results
  /\ isProcessing' = next.isProcessing
  /\ error' = next.error
  /\ completedStages' = next.completedStages

\* The updater of setStage, lines 43-45.
WithStage(prev, stage) == [prev EXCEPT !.currentStage = stage]

\* The updater of markStageComplete, lines 47-54.
WithStageComplete(prev, stage) ==
  [prev EXCEPT !.completedStages =
     IF stage \in Range(prev.completedStages) THEN prev.completedStages
     ELSE Append(prev.completedStages, stage)]

\* dataset.columns.filter(c => c.type === 'numeric')
NumericColumns(ds) == SelectSeq(ds.columns, LAMBDA c : c.type = "numeric")

\* The names of a sequence of columns.
Names(columns) == [k \in DOMAIN columns |-> columns[k].name]

\* The updater of handleDatasetLoaded, lines 56-71.
WithDataset(prev, ds) ==
  IF ds # Null
  THEN LET numericCols == NumericColumns(ds)
       IN  [prev EXCEPT
              !.dataset = ds,
              !.config.targetColumn =
                 IF numericCols = <<>> THEN NullString
                 ELSE numericCols[Len(numericCols)].name,
              !.config.featureColumns =
                 Names(SubSeq(numericCols, 1, Len(numericCols) - 1))]
  ELSE [prev EXCEPT !.dataset = Null]

\* No step of a handler other than handleTrain touches its locals or shows a
\* notification, and none runs while handleTrain does: handleTrain has no
\* await, so it runs from its first line to its return in one task.
HandlerAtAnyTime ==
  /\ UNCHANGED <<toasted, trainPc, trainLocals>>
  /\ pbOnly
Handler ==
  /\ trainPc = "idle"
  /\ UNCHANGED <<toasted, trainPc, trainLocals>>
  /\ pbOnly

\* row[name]: undefined for a key the row does not have.
Cell(row, name) == IF name \in DOMAIN row THEN row[name] ELSE Undefined

\* dataset.columns.findIndex(c => c.name === name), 0-based, -1 for none.
FindIndex(columns, name) == IndexOf(Names(columns), name)

\* Lines 90-100 throw a TypeError where they read the name of
\* dataset.columns[-1], which they do for every row once a feature column is
\* no column of the dataset.
ExtractThrows(ds, featureColumns) ==
  /\ ds.rawData # <<>>
  /\ \E k \in DOMAIN featureColumns :
       FindIndex(ds.columns, featureColumns[k]) = -1

\* X of lines 90-100.
ExtractFeatures(ds, featureColumns) ==
  LET featureIndices ==
        [k \in DOMAIN featureColumns |-> FindIndex(ds.columns, featureColumns[k])]
  IN  [r \in DOMAIN ds.rawData |->
        [k \in DOMAIN featureIndices |->
          NumberOrZero(Cell(ds.rawData[r],
                            ds.columns[featureIndices[k] + 1].name))]]

\* isNaN(val) ? 0 : (val > 0.5 ? 1 : 0), line 104.
LabelAtLeastHalf(val) ==
  IF IsNaN(val) THEN 0 ELSE IF Geq(val, <<1, 2>>) THEN 1 ELSE 0
ThresholdLabel(val) ==
  IF IsNaN(val) THEN 0 ELSE IF Gt(val, <<1, 2>>) THEN 1 ELSE 0

\* y of lines 102-105.
ExtractLabels(ds, targetColumn) ==
  [r \in DOMAIN ds.rawData |->
    ThresholdLabel(ToNumber(Cell(ds.rawData[r], targetColumn)))]

\* Lines 108-112.
ScaleWith(method, X) ==
  CASE method = "standard" -> StandardScaler(X)
    [] method = "minmax" -> MinMaxScaler(X)
    [] OTHER -> X

\* The index arrays the shuffle loop of trainTestSplit can leave: every
\* order of 0 .. n-1.
Shuffled(n) ==
  {ind \in [1..n -> 0..(n - 1)] :
     \A i, j \in 1..n : i # j => ind[i] # ind[j]}

\* trainTestSplit(X, y, testSize), lines 66-91, for a shuffled index array.
TrainTestSplit(X, y, ts, ind) ==
  LET splitIndex == SplitIndex(Len(X), ts)
      trainIdx == SliceTo(ind, splitIndex)
      testIdx == SliceFrom(ind, splitIndex)
  IN  [X_train |-> MapIndex(trainIdx, X), X_test |-> MapIndex(testIdx, X),
       y_train |-> MapIndex(trainIdx, y), y_test |-> MapIndex(testIdx, y)]

\* The defaults of decisionTreeClassifier.
DefaultMaxDepth == 5
DefaultMinSamplesSplit == 2

\* The fit of lines 120-128 throws: logisticRegression never does;
\* decisionTreeClassifier does for a training set without rows, and returns a
\* tree for every other.
FitThrows(modelType, X_train, y_train) ==
  /\ modelType = "decision_tree"
  /\ Len(X_train) = 0
  /\ Threw(DecisionTreeClassifier(X_train, y_train, DefaultMaxDepth,
                                  DefaultMinSamplesSplit))

\* What predictLogistic and predictDecisionTree can return for the rows X
\* with a model fitted to labels 0 and 1: a 0 or a 1 for each row.  (The
\* fitted model, 1000 passes of gradient descent or a tree over scaled
\* values, is not computed: which of these it returns is left open.)
ModelPredictions(X) == [DOMAIN X -> {0, 1}]

\* The notifications of handleTrain, lines 76-80, 151-154 and 162-166 (the
\* description of the second, a formatted accuracy, is left out).
ConfigurationError ==
  [title |-> "Configuration Error",
   description |-> "Please ensure all configuration options are set correctly.",
   variant |-> "destructive"]
TrainingComplete == [title |-> "Training Complete"]
TrainingFailed ==
  [title |-> "Training Failed",
   description |-> "An error occurred during model training.",
   variant |-> "destructive"]

\* The most training runs of a session that succeed.
MaxRuns == 2

\* ------------------------------------------------------- handleTrain
\* The guard of line 75.
TrainGuard ==
  dataset = Null \/ config.targetColumn = NullString
    \/ Len(config.featureColumns) = 0

\* The Train button of the model stage, disabled while isProcessing
\* (ModelSelection.tsx lines 140-144).
TrainClickable ==
  currentStage = "model" /\ ~isProcessing /\ trainPc = "idle"

\* Fewer than MaxRuns runs have succeeded.
RunsLeft ==
  Cardinality({k \in DOMAIN completedStages :
                 completedStages[k] = "model"}) < MaxRuns

\* Lines 75-82: the configuration is not complete.
TrainRejectedAsFailure ==
  /\ TrainClickable
  /\ TrainGuard
  /\ SetState([state EXCEPT !.isProcessing = FALSE,
                            !.error = "Training failed"])
  /\ toasted' = TrainingFailed
  /\ UNCHANGED <<trainPc, trainLocals>>
  /\ pbOnly
TrainRejected ==
  /\ TrainClickable
  /\ TrainGuard
  /\ toasted' = ConfigurationError
  /\ UNCHANGED <<stateVars, trainPc, trainLocals>>
  /\ pbOnly

\* Line 84.
TrainStart ==
  /\ TrainClickable
  /\ ~TrainGuard
  /\ RunsLeft
  /\ SetState([state EXCEPT !.isProcessing = TRUE, !.error = NullString])
  /\ trainPc' = "extract"
  /\ UNCHANGED <<toasted, trainLocals>>
  /\ pbOnly

\* Lines 89-105.
ExtractData ==
  /\ trainPc = "extract"
  /\ IF ExtractThrows(dataset, config.featureColumns)
     THEN trainX' = <<>> /\ trainY' = <<>>
     ELSE /\ trainX' = ExtractFeatures(dataset, config.featureColumns)
          /\ trainY' = ExtractLabels(dataset, config.targetColumn)
  /\ trainPc' = "compute"
  /\ UNCHANGED <<stateVars, toasted, trainCalls>>
  /\ pbOnly

\* A call of the library: the function called, its arguments, what it
\* returned.
Call(fn, args, out) == [fn |-> fn, args |-> args, out |-> out]

\* Lines 108-112: the call of the selected scaler on X, none for 'none'.
ScalerCalls(method, X) ==
  CASE method = "standard" -> <<Call("standardScaler", <<X>>, StandardScaler(X))>>
    [] method = "minmax" -> <<Call("minMaxScaler", <<X>>, MinMaxScaler(X))>>
    [] OTHER -> <<>>

\* Lines 107-115: the calls of the scaler and of trainTestSplit that a run
\* on X and y can make, each with the split it hands on.
SplitsScaledApart(method, X, y, ratio) ==
  {[calls |-> <<Call("trainTestSplit", <<X, y, ratio>>, raw)>>
                \o ScalerCalls(method, raw.X_train)
                \o ScalerCalls(method, raw.X_test),
    split |-> [raw EXCEPT !.X_train = ScaleWith(method, @),
                          !.X_test = ScaleWith(method, @)]] :
     raw \in {TrainTestSplit(X, y, ratio, ind) : ind \in Shuffled(Len(X))}}
ScaledSplits(method, X, y, ratio) ==
  {[calls |-> scaling \o <<Call("trainTestSplit", <<split.X, y, ratio>>,
                                split.out)>>,
    split |-> split.out] :
     split \in {[X |-> scaled, out |-> TrainTestSplit(scaled, y, ratio, ind)] :
                  scaled \in {ScaleWith(method, X)},
                  ind \in Shuffled(Len(X))},
     scaling \in {ScalerCalls(method, X)}}

\* The splits lines 107-115 can give.
TrainSplits ==
  {s.split : s \in ScaledSplits(config.preprocessing, trainX, trainY,
                                config.splitRatio)}

\* What logisticRegression and decisionTreeClassifier return where they do
\* not throw: a model, of which only the training set it was fitted to is
\* kept.
Fitted(X_train, y_train) == [fittedTo |-> <<X_train, y_train>>]

\* Lines 120-133: the calls that fit the model to a split, predict and
\* evaluate, for the predictions the model gives.
ModelCalls(modelType, split, predictions, trainPredictions) ==
  LET fit == IF modelType = "logistic" THEN "logisticRegression"
             ELSE "decisionTreeClassifier"
      predict == IF modelType = "logistic" THEN "predictLogistic"
                 ELSE "predictDecisionTree"
      model == Fitted(split.X_train, split.y_train)
  IN  <<Call(fit, <<split.X_train, split.y_train>>, model),
        Call(predict, <<split.X_test, model>>, predictions),
        Call(predict, <<split.X_train, model>>, trainPredictions),
        Call("calculateAccuracy", <<split.y_test, predictions>>,
             CalculateAccuracy(split.y_test, predictions)),
        Call("calculateAccuracy", <<split.y_train, trainPredictions>>,
             CalculateAccuracy(split.y_train, trainPredictions)),
        Call("confusionMatrix", <<split.y_test, predictions>>,
             ConfusionMatrix(split.y_test, predictions))>>

\* Lines 107-133: scaling, split, fit, predictions and evaluation, where no
\* step throws.
RunPipeline ==
  /\ trainPc = "compute"
  /\ ~ExtractThrows(dataset, config.featureColumns)
  /\ \E s \in ScaledSplits(config.preprocessing, trainX, trainY,
                            config.splitRatio) :
       /\ ~FitThrows(config.modelType, s.split.X_train, s.split.y_train)
       /\ \E predictions \in ModelPredictions(s.split.X_test),
             trainPredictions \in ModelPredictions(s.split.X_train) :
            trainCalls' = s.calls \o ModelCalls(config.modelType, s.split,
                                                predictions, trainPredictions)
  /\ trainPc' = "evaluated"
  /\ UNCHANGED <<stateVars, toasted, trainX, trainY>>
  /\ pbOnly

\* Results that report the two sizes in each other's place.
ResultsOfSizesSwapped(calls) ==
  LET n == Len(calls)
  IN  [accuracy |-> calls[n - 2].out,
       trainAccuracy |-> calls[n - 1].out,
       predictions |-> calls[n - 4].out,
       confusionMatrix |-> calls[n].out,
       trainSize |-> Len(calls[n - 4].args[1]),
       testSize |-> Len(calls[n - 3].args[1])]
\* The TrainingResults of lines 141-146, from the calls of the run: the last
\* four are the prediction on the training rows, the two accuracies and the
\* confusion matrix, the one before them the prediction on the test rows.
\* (trainingTime, a reading of the clock, is left out.)
ResultsOf(calls) ==
  LET n == Len(calls)
  IN  [accuracy |-> calls[n - 2].out,
       trainAccuracy |-> calls[n - 1].out,
       predictions |-> calls[n - 4].out,
       confusionMatrix |-> calls[n].out,
       trainSize |-> Len(calls[n - 3].args[1]),
       testSize |-> Len(calls[n - 4].args[1])]

\* Lines 135-154: the run succeeds.
TrainSucceeds ==
  /\ trainPc = "evaluated"
  /\ SetState([state EXCEPT
       !.isProcessing = FALSE,
       !.results = ResultsOf(trainCalls),
       !.currentStage = "results",
       !.completedStages = @ \o <<"model", "results">>])
  /\ toasted' = TrainingComplete
  /\ trainPc' = "idle"
  /\ trainX' = <<>> /\ trainY' = <<>> /\ trainCalls' = <<>>
  /\ pbOnly

\* error.message of the TypeError of reduce, and of the TypeError of reading
\* a property of undefined.
ReduceMessage == "Reduce of empty array with no initial value"
UndefinedMessage == "Cannot read properties of undefined (reading 'name')"

\* A catch that drops the results of the earlier runs with the failed one.
TrainFailsDroppingResults ==
  /\ trainPc = "compute"
  /\ \/ ExtractThrows(dataset, config.featureColumns)
     \/ \E split \in TrainSplits :
          FitThrows(config.modelType, split.X_train, split.y_train)
  /\ SetState([state EXCEPT
       !.isProcessing = FALSE, !.results = Null,
       !.error = IF ExtractThrows(dataset, config.featureColumns)
                 THEN UndefinedMessage ELSE ReduceMessage])
  /\ toasted' = TrainingFailed
  /\ trainPc' = "idle"
  /\ trainX' = <<>> /\ trainY' = <<>> /\ trainCalls' = <<>>
  /\ pbOnly
\* Lines 155-167: a step of the run has thrown.
TrainFails ==
  /\ trainPc = "compute"
  /\ \/ ExtractThrows(dataset, config.featureColumns)
     \/ \E split \in TrainSplits :
          FitThrows(config.modelType, split.X_train, split.y_train)
  /\ SetState([state EXCEPT
       !.isProcessing = FALSE,
       !.error = IF ExtractThrows(dataset, config.featureColumns)
                 THEN UndefinedMessage ELSE ReduceMessage])
  /\ toasted' = TrainingFailed
  /\ trainPc' = "idle"
  /\ trainX' = <<>> /\ trainY' = <<>> /\ trainCalls' = <<>>
  /\ pbOnly

\* handleReset, lines 170-172, the button of the results view.
ResetKeepingConfig ==
  /\ currentStage = "results" /\ results # Null
  /\ SetState([initialState EXCEPT !.config = config])
  /\ Handler
HandleReset ==
  /\ currentStage = "results" /\ results # Null
  /\ SetState(initialState)
  /\ Handler

\* ------------------------------------------------- the wizard's views
\* DatasetUpload, rendered at the upload stage: a file is dropped where no
\* dataset is shown, and parsed (DatasetUpload.tsx lines 56-103, 118).
LoadFile ==
  /\ currentStage = "upload" /\ dataset = Null
  /\ \E file \in WizardFiles : SetState(WithDataset(state, ProcessData(file)))
  /\ Handler

\* The remove button of the shown dataset (DatasetUpload.tsx line 179).
RemoveDataset ==
  /\ currentStage = "upload" /\ dataset # Null
  /\ SetState(WithDataset(state, Null))
  /\ Handler

\* onNext of the upload stage, lines 215-218 (the button is rendered for a
\* dataset, DatasetUpload.tsx line 247).
UploadNext ==
  /\ currentStage = "upload" /\ dataset # Null
  /\ SetState(WithStage(WithStageComplete(state, "upload"), "preprocess"))
  /\ Handler

\* PreprocessingConfig, lines 230-243.
ChangeMethod ==
  /\ currentStage = "preprocess"
  /\ \E method \in PreprocessingMethods :
       SetState([state EXCEPT !.config.preprocessing = method])
  /\ Handler

PreprocessNext ==
  /\ currentStage = "preprocess"
  /\ SetState(WithStage(WithStageComplete(state, "preprocess"), "split"))
  /\ Handler

\* onBack of the preprocess, split and model stages, lines 242, 285, 306.
Back ==
  /\ \/ currentStage = "preprocess" /\ SetState(WithStage(state, "upload"))
     \/ currentStage = "split" /\ dataset # Null
          /\ SetState(WithStage(state, "preprocess"))
     \/ currentStage = "model" /\ SetState(WithStage(state, "split"))
  /\ Handler

\* TrainTestSplit is rendered at the split stage for a dataset, line 247.
SplitShown == currentStage = "split" /\ dataset # Null

\* Lines 259-264.
ChangeSplitRatio ==
  /\ SplitShown
  /\ \E ratio \in SplitRatios :
       SetState([state EXCEPT !.config.splitRatio = ratio])
  /\ Handler

\* A change of the target that leaves the feature columns as they are.
ChangeTargetKeepingFeatures ==
  /\ SplitShown
  /\ \E column \in Range(Names(NumericColumns(dataset))) :
       SetState([state EXCEPT !.config.targetColumn = column])
  /\ Handler
\* Lines 265-274: a numeric column is chosen as the target (part_002 lines
\* 77-88).
ChangeTarget ==
  /\ SplitShown
  /\ \E column \in Range(Names(NumericColumns(dataset))) :
       SetState([state EXCEPT
         !.config.targetColumn = column,
         !.config.featureColumns = SelectSeq(@, LAMBDA c : c # column)])
  /\ Handler

\* toggleFeatureColumn, part_002 lines 37-44, of a column's button, which
\* is disabled for the target (line 154).
ToggleFeature ==
  /\ SplitShown
  /\ \E colName \in Range(Names(NumericColumns(dataset))) :
       /\ colName # config.targetColumn
       /\ SetState([state EXCEPT !.config.featureColumns =
            IF colName \in Range(@) THEN SelectSeq(@, LAMBDA c : c # colName)
            ELSE Append(@, colName)])
  /\ Handler

\* selectAllFeatures, part_002 lines 46-48.
SelectAllFeatures ==
  /\ SplitShown
  /\ SetState([state EXCEPT !.config.featureColumns =
       SelectSeq(Names(NumericColumns(dataset)),
                 LAMBDA c : c # config.targetColumn)])
  /\ Handler

\* onNext of the split stage, lines 281-284, enabled by canContinue
\* (part_002 lines 50, 207).
SplitNext ==
  /\ SplitShown
  /\ config.targetColumn # NullString /\ Len(config.featureColumns) > 0
  /\ SetState(WithStage(WithStageComplete(state, "split"), "model"))
  /\ Handler

\* onModelChange, lines 299-304.
ChangeModel ==
  /\ currentStage = "model"
  /\ \E model \in ModelTypes : SetState([state EXCEPT !.config.modelType = model])
  /\ Handler

\* A stage of the flow bar is clicked: a completed stage, or one not after
\* the current (part_001 lines 27-39).
StageClick ==
  /\ \E k \in DOMAIN Stages :
       /\ \/ Stages[k] \in Range(completedStages)
          \/ k - 1 <= IndexOf(Stages, currentStage)
       /\ SetState(WithStage(state, Stages[k]))
  /\ Handler

\* The component as mounted: useState(initialState), line 40.
pbIdle ==
  /\ StateIs(initialState)
  /\ toasted = Null /\ trainPc = "idle"
  /\ trainX = <<>> /\ trainY = <<>> /\ trainCalls = <<>>

\* The split ratios a training run is checked with.
TrainRatios == {<<1, 10>>, <<1, 5>>, <<1, 2>>}

\* The sequences without repetition over the set S.
Selections(S) ==
  {f \in UNION {[1..k -> S] : k \in 0..Cardinality(S)} :
     \A i, j \in DOMAIN f : i # j => f[i] # f[j]}

\* The model stage with a dataset and a configuration the split stage can
\* leave: a numeric column as the target where there is one, other numeric
\* columns as the features.
pbTrainInit ==
  \E file \in TrainFiles, method \in PreprocessingMethods,
     ratio \in TrainRatios, model \in ModelTypes :
    LET ds == ProcessData(file)
        numeric == Range(Names(NumericColumns(ds)))
    IN  \E target \in (IF numeric = {} THEN {NullString} ELSE numeric) :
          \E features \in Selections(numeric \ {target}) :
            /\ StateIs(
                 [initialState EXCEPT
                    !.currentStage = "model",
                    !.dataset = ds,
                    !.config = [preprocessing |-> method, splitRatio |-> ratio,
                                targetColumn |-> target,
                                featureColumns |-> features,
                                modelType |-> model],
                    !.completedStages = <<"upload", "preprocess", "split">>])
            /\ toasted = Null /\ trainPc = "idle"
            /\ trainX = <<>> /\ trainY = <<>> /\ trainCalls = <<>>

trainNext ==
  \/ TrainRejected \/ TrainStart \/ ExtractData \/ RunPipeline
  \/ TrainSucceeds \/ TrainFails

pbNext ==
  \/ LoadFile \/ RemoveDataset \/ UploadNext
  \/ ChangeMethod \/ PreprocessNext \/ Back
  \/ ChangeSplitRatio \/ ChangeTarget \/ ToggleFeature \/ SelectAllFeatures
  \/ SplitNext \/ ChangeModel \/ StageClick
  \/ trainNext \/ HandleReset

\* ------------------------------------------------ DatasetUpload
\* The messages of lines 24, 84 and 88.
EmptyFile == "The file appears to be empty"
UnsupportedFormat ==
  "Unsupported file format. Please upload a CSV or Excel file."
FailedToRead == "Failed to read file. Please check the file format."

\* A file without rows.
FileEmpty == [fileName |-> "empty.csv", names |-> <<>>, data |-> <<>>]

\* The File objects dropped or picked: the extension of the name (what
\* follows its last dot, in lower case, line 60), whether the parser reads
\* the content, and the rows it reads.
FileObject(extension, readable, parsed) ==
  [extension |-> extension, readable |-> readable, parsed |-> parsed]
UploadFiles ==
  {FileObject("csv", TRUE, FileTwo), FileObject("csv", TRUE, FileWide),
   FileObject("xlsx", TRUE, FileFive), FileObject("csv", TRUE, FileEmpty),
   FileObject("xlsx", FALSE,
              [fileName |-> "broken.xlsx", names |-> <<>>, data |-> <<>>]),
   FileObject("txt", FALSE,
              [fileName |-> "notes.txt", names |-> <<>>, data |-> <<>>])}

\* The most files handed to handleFile in a session.
MaxLoads == 3

\* The extensions of lines 63 and 76.
Supported(file) == file.extension \in {"csv", "xlsx", "xls"}

\* The load of the file ends with a dataset handed to onDatasetLoaded.
Loadable(file) ==
  Supported(file) /\ file.readable /\ file.parsed.data # <<>>

\* s without its k-th element.
Without(s, k) == SubSeq(s, 1, k - 1) \o SubSeq(s, k + 1, Len(s))

duIdle ==
  /\ isLoading = FALSE /\ uploadError = NullString
  /\ inFlight = <<>> /\ chosen = <<>> /\ handed = <<>>

\* handleFile, lines 56-91, up to the start of the parse (Papa.parse of line
\* 64, which calls back later) or to the await of line 77; for another
\* extension to its return, lines 83-86.  The drop zone and the file input
\* are rendered where no dataset is shown (line 118), loading or not.
HandleFile ==
  /\ currentStage = "upload" /\ dataset = Null /\ trainPc = "idle"
  /\ Len(chosen) < MaxLoads
  /\ \E file \in UploadFiles :
       /\ chosen' = Append(chosen, file.parsed.fileName)
       /\ IF Supported(file)
          THEN /\ isLoading' = TRUE /\ uploadError' = NullString
               /\ inFlight' = Append(inFlight, file)
          ELSE /\ isLoading' = FALSE /\ uploadError' = UnsupportedFormat
               /\ UNCHANGED inFlight
  /\ UNCHANGED <<stateVars, handed>>
  /\ duOnly

\* The load of a file completes: the complete callback of lines 67-70, or
\* lines 78-82 after the await, with processData (lines 22-54); the catch of
\* lines 87-90 for a content the parser throws on.
CompleteLoad ==
  /\ \E k \in DOMAIN inFlight :
       LET file == inFlight[k]
       IN  /\ inFlight' = Without(inFlight, k)
           /\ isLoading' = FALSE
           /\ IF Loadable(file)
              THEN /\ SetState(WithDataset(state, ProcessData(file.parsed)))
                   /\ handed' = Append(handed, file.parsed.fileName)
                   /\ uploadError' = NullString
              ELSE /\ uploadError' =
                        IF file.readable THEN EmptyFile ELSE FailedToRead
                   /\ UNCHANGED <<stateVars, handed>>
  /\ UNCHANGED chosen
  /\ duOnly

duNext == HandleFile \/ CompleteLoad \/ RemoveDataset

\* ---------------------------------------------------- specifications
vars == <<ttsVars, evVars, dtVars, lrVars, scVars, pbVars, duVars>>

\* Calls of trainTestSplit.
InitSplit == ttsInit /\ evIdle /\ dtIdle /\ lrIdle /\ scIdle /\ pbIdle /\ duIdle
SpecSplit == InitSplit /\ [][ttsNext]_vars

\* Calls of calculateAccuracy and confusionMatrix.
InitEval == evInit /\ ttsIdle /\ dtIdle /\ lrIdle /\ scIdle /\ pbIdle /\ duIdle
SpecEval == InitEval /\ [][evNext]_vars

\* Calls of decisionTreeClassifier and predictDecisionTree.
InitTree == dtInit /\ ttsIdle /\ evIdle /\ lrIdle /\ scIdle /\ pbIdle /\ duIdle
SpecTree == InitTree /\ [][dtNext]_vars

\* Calls of logisticRegression and predictLogistic.
InitLogistic == lrInit /\ ttsIdle /\ evIdle /\ dtIdle /\ scIdle /\ pbIdle /\ duIdle
SpecLogistic == InitLogistic /\ [][lrNext]_vars

\* Calls of standardScaler and minMaxScaler.
InitScale == scInit /\ ttsIdle /\ evIdle /\ dtIdle /\ lrIdle /\ pbIdle /\ duIdle
SpecScale == InitScale /\ [][scNext]_vars

\* A session of the wizard.
InitWizard == pbIdle /\ ttsIdle /\ evIdle /\ dtIdle /\ lrIdle /\ scIdle /\ duIdle
SpecWizard == InitWizard /\ [][pbNext]_vars

\* The upload stage with the loads of its files.
SpecUpload == InitWizard /\ [][duNext]_vars

\* A click on Train at the model stage.
InitTrain == pbTrainInit /\ ttsIdle /\ evIdle /\ dtIdle /\ lrIdle /\ scIdle /\ duIdle
SpecTrain == InitTrain /\ [][trainNext]_vars

\* A call of any operation of the library.
Init == InitSplit \/ InitEval \/ InitTree \/ InitLogistic \/ InitScale
Next == ttsNext \/ evNext \/ dtNext \/ lrNext \/ scNext
Spec == Init /\ [][Next]_vars

\* -------------------------------------------------------------- C1
\* s holds every index of 0..n-1 exactly once.
IsPermutation(s, n) ==
  /\ Len(s) = n
  /\ \A v \in 0..(n - 1) : Cardinality({k \in DOMAIN s : s[k] = v}) = 1

\* C1: trainTestSplit returns an index-aligned partition.  The index sequence
\* is a permutation of [0,n) in every state of the call, so after every swap;
\* at the return the train and test index sequences together hold every row
\* index exactly once, and position k of X_train and of y_train (X_test and
\* y_test) hold the row and the label of one and the same original index.
C1_AlignedPartition ==
  /\ ttsPc # "idle" => IsPermutation(indices, Len(ttsX))
  /\ ttsPc = "done" =>
       /\ IsPermutation(trainIndices \o testIndices, Len(ttsX))
       /\ Len(ttsOut.X_train) = Len(trainIndices)
       /\ Len(ttsOut.y_train) = Len(trainIndices)
       /\ Len(ttsOut.X_test) = Len(testIndices)
       /\ Len(ttsOut.y_test) = Len(testIndices)
       /\ \A k \in DOMAIN trainIndices :
            /\ ttsOut.X_train[k] = ttsX[trainIndices[k] + 1]
            /\ ttsOut.y_train[k] = ttsY[trainIndices[k] + 1]
       /\ \A k \in DOMAIN testIndices :
            /\ ttsOut.X_test[k] = ttsX[testIndices[k] + 1]
            /\ ttsOut.y_test[k] = ttsY[testIndices[k] + 1]

\* A shuffled call that moved rows, with rows on both sides of the boundary.
C1_Witness ==
  /\ ttsPc = "done" /\ shuffle
  /\ indices # IotaIndices(Len(ttsX))
  /\ Len(trainIndices) > 0 /\ Len(testIndices) > 0
  /\ ttsY[1] # ttsY[2]

\* -------------------------------------------------------------- C2
\* floor(n * (1 - p/q)) in integer arithmetic.
BoundaryOf(n, f) == (n * (f[2] - f[1])) \div f[2]

Observed == Range(yTrue) \cup Range(yPred)

\* The 1-based place of v among the observed values in ascending order.
RankOf(v) == Cardinality({u \in Observed : u < v}) + 1

\* C3: confusionMatrix returns a square matrix with one row and one column per
\* distinct value of yTrue and yPred, in ascending order of the values, whose
\* cell [i][j] is the number of positions with true label the i-th and
\* predicted label the j-th value; and confusionMatrix([0,0,1,1],[0,1,1,0])
\* is [[1,1],[1,1]].
C3_ConfusionCells ==
  /\ "matrix" \in evDone =>
       /\ Len(matrix) = Cardinality(Observed)
       /\ \A a \in DOMAIN matrix : Len(matrix[a]) = Cardinality(Observed)
       /\ \A v \in Observed, w \in Observed :
            matrix[RankOf(v)][RankOf(w)] =
              Cardinality({k \in DOMAIN yTrue : yTrue[k] = v /\ yPred[k] = w})
  /\ ConfusionMatrix(<<0, 0, 1, 1>>, <<0, 1, 1, 0>>) = <<<<1, 1>>, <<1, 1>>>>

\* A matrix that is not symmetric, and one of a single label.
C3_Witness ==
  /\ "matrix" \in evDone
  /\ yTrue = <<0, 0, 2>> /\ yPred = <<2, 2, 0>>
  /\ matrix = <<<<0, 2>>, <<1, 0>>>>
  /\ ConfusionMatrix(<<1, 1>>, <<1, 1>>) = <<<<2>>>>

\* -------------------------------------------------------------- C4
\* C4: calculateAccuracy returns the number of positions where yTrue and yPred
\* agree divided by the length, a value in [0,1], and 0 for empty vectors.
C4_AccuracyFraction ==
  "accuracy" \in evDone =>
    LET n == Len(yTrue)
        agree == Cardinality({k \in DOMAIN yTrue : yTrue[k] = yPred[k]})
    IN  /\ ~IsNaN(accuracy)
        /\ accuracy[1] * n = agree * accuracy[2]
        /\ 0 <= accuracy[1] /\ accuracy[1] <= accuracy[2]
        /\ n = 0 => accuracy = R(0)

\* The accuracy of a pair of vectors that agree in some places only, and of
\* the empty pair.
C4_Witness ==
  /\ "accuracy" \in evDone
  /\ yTrue = <<0, 1, 1>> /\ yPred = <<0, 1, 2>>
  /\ accuracy = <<2, 3>>
  /\ CalculateAccuracy(<<>>, <<>>) = R(0)
  /\ CalculateAccuracy(<<0, 0, 1, 1>>, <<0, 1, 1, 0>>) = <<1, 2>>

\* -------------------------------------------------------------- C5
\* C5: from a training set whose labels are all one value v,
\* decisionTreeClassifier returns the single leaf predicting v, whatever the
\* features, maxDepth and minSamplesSplit, and predictDecisionTree with that
\* tree returns v for every row of its input, rows not in the training set
\* included.
C5_SingleLabelTree ==
  (dtPc \in {"trained", "threw", "predicted"} /\ dtY # <<>>
     /\ \A k \in DOMAIN dtY : dtY[k] = dtY[1]) =>
    /\ dtPc # "threw"
    /\ tree = [prediction |-> dtY[1]]
    /\ dtPc = "predicted" =>
         /\ Len(dtPred) = Len(dtXp)
         /\ \A k \in DOMAIN dtPred : dtPred[k] = dtY[1]

\* A tree of three rows labelled 0 has predicted every row of the domain, and
\* some of them are no training rows.
C5_Witness ==
  /\ dtPc = "predicted"
  /\ dtY = <<0, 0, 0>>
  /\ dtXp = AllTreeRows
  /\ \E k \in DOMAIN dtXp : dtXp[k] \notin Range(dtX)
  /\ maxDepth > 0 /\ minSamplesSplit = 2

\* -------------------------------------------------------------- C6
\* C6: with maxDepth = 0 and a training set that is not empty the returned
\* tree is a single leaf, without feature, threshold or children, that
\* predicts a label no other label of y_train outnumbers; the features have
\* no influence: the tree is the one built from the same labels with every
\* feature value 0.
C6_DepthZeroLeaf ==
  (dtPc \in {"trained", "threw", "predicted"} /\ maxDepth = 0 /\ dtY # <<>>) =>
    /\ dtPc # "threw"
    /\ DOMAIN tree = {"prediction"}
    /\ tree.prediction \in Range(dtY)
    /\ \A w \in Range(dtY) : CountOf(dtY, tree.prediction) >= CountOf(dtY, w)
    /\ tree = DecisionTreeClassifier([k \in DOMAIN dtX |-> <<0, 0>>], dtY, 0,
                                     minSamplesSplit)

\* With maxDepth = 0 a training set that a deeper tree separates exactly, the
\* label 0 on the rows of feature value 0 and the label 1 on the other, once
\* with a majority and once with a tie.
C6_Witness ==
  /\ dtPc = "trained" /\ maxDepth = 0 /\ minSamplesSplit = 0
  /\ dtX = <<<<0, 0>>, <<0, 1>>, <<1, 0>>>> /\ dtY = <<0, 0, 1>>
  /\ tree = [prediction |-> 0]
  /\ DOMAIN DecisionTreeClassifier(dtX, dtY, 1, 0) # {"prediction"}
  /\ DecisionTreeClassifier(<<<<0, 0>>, <<1, 0>>>>, <<0, 1>>, 0, 2) = [prediction |-> 1]

\* -------------------------------------------------------------- C7
\* dot(row, weights) + bias in exact arithmetic, without the sigmoid; a row
\* with more entries than there are weights has no score (NaN).
ExactScore(x, w, b) ==
  IF Len(x) > Len(w) THEN NaN
  ELSE LET products == [k \in DOMAIN x |-> Mul(R(x[k]), w[k])]
       IN  Add(Add(Add(R(0), products[1]), products[2]), b)

\* C7: predictLogistic returns one value per row, each 0 or 1, and 1 exactly
\* for the rows with dot(row, weights) + bias >= 0 (a comparison that is false
\* when the sum is NaN, as it is for a NaN bias and for a row with more
\* entries than there are weights); the model of zero weights, one per
\* feature, and zero bias predicts 1 for every row.
C7_PredictBySign ==
  lrPc = "predicted" =>
    /\ Len(lrPred) = Len(lrXp)
    /\ \A k \in DOMAIN lrPred :
         /\ lrPred[k] \in {0, 1}
         /\ lrPred[k] = 1 <=> Geq(ExactScore(lrXp[k], weights, bias), R(0))
    /\ (bias = R(0) /\ \A j \in DOMAIN weights : weights[j] = R(0)) =>
         \A k \in DOMAIN lrPred :
           Len(lrXp[k]) = Len(weights) => lrPred[k] = 1

\* A given model that separates the rows, and the all-zero model returned by
\* a training of 0 iterations.
C7_Witness ==
  /\ lrPc = "predicted"
  /\ lrXp = AllLRRows
  /\ \/ /\ weights = <<R(1), R(-1)>> /\ bias = R(0)
        /\ \E k \in DOMAIN lrPred : lrPred[k] = 0
        /\ \E k \in DOMAIN lrPred : lrPred[k] = 1 /\ lrXp[k] = <<0, 0>>
     \/ /\ iterations = 0 /\ Len(lrX) > 0
        /\ weights = <<R(0), R(0)>> /\ bias = R(0)

\* -------------------------------------------------------------- C8
\* C8 as claimed: every operation of the library called with a zero-row input
\* returns, and returns an empty or zero result; none throws.
C8_EmptyInputsReturn ==
  /\ (scPc = "done" /\ scData = <<>>) => scOut = <<>>
  /\ (ttsPc = "done" /\ ttsX = <<>>) =>
       ttsOut = [X_train |-> <<>>, X_test |-> <<>>, y_train |-> <<>>,
                 y_test |-> <<>>]
  /\ (lrPc = "returned" /\ lrX = <<>>) => (weights = <<>> /\ bias = R(0))
  /\ (lrPc = "predicted" /\ lrXp = <<>>) => lrPred = <<>>
  /\ (dtPc \in {"trained", "threw"} /\ dtX = <<>>) => dtPc = "trained"
  /\ (dtPc = "predicted" /\ dtXp = <<>>) => dtPred = <<>>
  /\ ("accuracy" \in evDone /\ yTrue = <<>>) => accuracy = R(0)
  /\ ("matrix" \in evDone /\ yTrue = <<>>) => matrix = <<>>

\* -------------------------------------------------------------- C9
\* C9 as claimed: logisticRegression with zero training rows returns a weight
\* vector of length 0 and the bias 0, whatever the learning rate and the
\* number of iterations.
C9_EmptyTrainingNoOp ==
  (lrPc = "returned" /\ Len(lrX) = 0) => (weights = <<>> /\ bias = R(0))

\* ------------------------------------------------------------- C10
\* What holds at every point of a call of logisticRegression: the weights are
\* one per feature; no more than `iterations` passes are done; before the
\* first pass weights and bias are 0; the next pass has its predictions,
\* whatever the values; the call has returned only with exactly `iterations`
\* passes done.
PassCountInvariant ==
  lrPc \in {"loop", "returned"} =>
    /\ Len(weights) = NumFeatures(lrX)
    /\ iter <= iterations
    /\ iter = 0 => (bias = R(0) /\ \A j \in DOMAIN weights : weights[j] = R(0))
    /\ lrPc = "loop" => Predictions(lrX, weights, bias) # {}
    /\ lrPc = "returned" => iter = iterations

\* A step of the loop is a pass, which adds 1 to the pass count and keeps the
\* number of weights, or the return, which leaves the model as it is and is
\* taken only with all passes done.
PassStep ==
  lrPc = "loop" =>
    \/ /\ lrPc' = "loop" /\ iter < iterations /\ iter' = iter + 1
          /\ Len(weights') = Len(weights)
    \/ /\ lrPc' = "returned" /\ iter = iterations
          /\ iter' = iter /\ weights' = weights /\ bias' = bias

\* C10: logisticRegression starts from zero weights, one per feature, and
\* bias 0, does exactly `iterations` full passes, none skipped and with no
\* exit before the last (the pass count rises by 1 per pass up to
\* `iterations`, so the loop ends), and returns a weight vector with one entry
\* per feature; with 0 iterations the returned weights and bias are all 0.
C10_FixedPassCount == []PassCountInvariant /\ [][PassStep]_vars

\* A training of two passes on two rows has returned changed weights; and a
\* training of 0 iterations on rows has returned.
C10_Witness ==
  /\ lrPc = "returned"
  /\ \/ /\ iterations = 2 /\ iter = 2 /\ Len(lrX) = 2
        /\ weights[1] # R(0) /\ Len(weights) = 2
     \/ /\ iterations = 0 /\ Len(lrX) > 0 /\ Len(weights) = 2

\* -------------------------------------------------------------- C11
\* Column j of the matrix holds one value only.
ColumnIsConstant(data, j) ==
  \A k, l \in DOMAIN data : data[k][j] = data[l][j]

\* Row k holds the smallest (the largest) value of column j.
HoldsColumnMin(data, k, j) == \A l \in DOMAIN data : Leq(data[k][j], data[l][j])
HoldsColumnMax(data, k, j) == \A l \in DOMAIN data : Geq(data[k][j], data[l][j])

\* C11: for every non-empty rectangular matrix, every value minMaxScaler
\* returns lies in [0,1]; in a column that is not constant the rows holding
\* the column's minimum map to 0 and those holding its maximum map to 1; a
\* constant column maps to zeros.
C11_MinMaxUnitRange ==
  (scPc = "done" /\ scaler = "minmax" /\ Len(scData) > 0) =>
    \A j \in 1..Len(scData[1]) :
      /\ \A k \in DOMAIN scData :
           Geq(scOut[k][j], R(0)) /\ Leq(scOut[k][j], R(1))
      /\ IF ColumnIsConstant(scData, j)
         THEN \A k \in DOMAIN scData : scOut[k][j] = R(0)
         ELSE \A k \in DOMAIN scData :
                /\ HoldsColumnMin(scData, k, j) => scOut[k][j] = R(0)
                /\ HoldsColumnMax(scData, k, j) => scOut[k][j] = R(1)

\* minMaxScaler has returned for three rows whose first column has a value
\* mapped strictly inside (0,1) and whose second column is constant.
C11_Witness ==
  /\ scPc = "done" /\ scaler = "minmax" /\ Len(scData) = 3
  /\ ~ColumnIsConstant(scData, 1) /\ ColumnIsConstant(scData, 2)
  /\ \E k \in DOMAIN scData :
       Gt(scOut[k][1], R(0)) /\ Gt(R(1), scOut[k][1])

\* -------------------------------------------------------------- C12
\* C12, its clause on constant columns: for every non-empty rectangular
\* matrix, a column of standardScaler's input whose values are all equal
\* has the standard deviation 0, which is replaced by the divisor 1, and maps
\* to zeros.  (A cell [num, squared] is the number num / sqrt(squared): it is
\* zero exactly when num is; the divisor was replaced exactly when squared
\* is 1 for a column of variance 0.)
C12_ConstantColumnZeros ==
  (scPc = "done" /\ scaler = "standard" /\ Len(scData) > 0) =>
    \A j \in 1..Len(scData[1]) :
      ColumnIsConstant(scData, j) =>
        \A k \in DOMAIN scData : scOut[k][j].num = R(0)

\* -------------------------------------------------------------- C13
\* The returned matrix has the rows and the columns of the input, and is the
\* input itself when that has no rows.
ShapeKept ==
  scPc = "done" =>
    /\ Len(scOut) = Len(scData)
    /\ \A k \in DOMAIN scData : Len(scOut[k]) = Len(scData[k])
    /\ Len(scData) = 0 => scOut = scData

\* A step of a scaler leaves its input as it was.
InputKept == scData' = scData

\* C13: standardScaler and minMaxScaler preserve the shape and have no side
\* effect: the output has as many rows as the input and each row as many
\* columns, the input matrix holds the same values after the call as
\* before, and an input of zero rows is returned unchanged.
C13_ShapeAndInputKept == []ShapeKept /\ [][InputKept]_vars

\* Each scaler has returned for a matrix of three rows.
C13_Witness ==
  scPc = "done" /\ Len(scData) = 3 /\ Len(scOut) = 3 /\ Len(scOut[3]) = 2


\* ------------------------------------------------------------- C15
\* A step of handleTrain that ends a training request without results: it
\* shows a notification other than 'Training Complete'.
RequestFails == toasted' # toasted /\ toasted' # TrainingComplete

\* C15 as stated: every failing training request, whatever its cause, ends
\* with one and the same notification and state, error set and isProcessing
\* false.
C15_OneFailureCondition ==
  [][RequestFails =>
       /\ toasted' = TrainingFailed
       /\ error' # NullString
       /\ ~isProcessing']_vars

\* A request that fails the guard of handleTrain shows the destructive
\* notification 'Configuration Error' and leaves the whole state as it was.
GuardFailure ==
  (RequestFails /\ trainPc = "idle") =>
       /\ TrainGuard
       /\ toasted' = ConfigurationError
       /\ toasted'.variant = "destructive"
       /\ UNCHANGED stateVars

\* A run in which a step throws shows the destructive notification 'Training
\* Failed', sets error to the exception's message and isProcessing to false,
\* and leaves the rest of the state as it was; a run whose every split makes
\* the fit throw ends in this way.
ExceptionFailure ==
  /\ (RequestFails /\ trainPc # "idle") =>
       /\ ~TrainGuard
       /\ toasted' = TrainingFailed
       /\ toasted'.variant = "destructive"
       /\ error' \in {ReduceMessage, UndefinedMessage}
       /\ ~isProcessing'
       /\ UNCHANGED <<currentStage, dataset, config, results, completedStages>>
  /\ (/\ trainPc = "compute" /\ trainPc' = "idle"
      /\ \A split \in TrainSplits :
           FitThrows(config.modelType, split.X_train, split.y_train)) =>
       toasted' = TrainingFailed

\* C15, amended: a request that fails the guard of handleTrain (no dataset,
\* no target column or no feature column) shows the destructive notification
\* 'Configuration Error' and leaves the whole state as it was, error
\* included; a run in which a step throws shows the destructive notification
\* 'Training Failed', sets error to the exception's message and isProcessing
\* to false, and leaves the stage, the dataset, the configuration, the
\* results and the completed stages as they were.
C15_TwoFailureKinds == [][GuardFailure /\ ExceptionFailure]_vars

\* A request was rejected by the guard after an earlier run had thrown: the
\* error of that run is still set.
C15_Witness ==
  /\ toasted = ConfigurationError
  /\ error = ReduceMessage
  /\ currentStage = "model" /\ TrainGuard

\* ------------------------------------------------------------- C16
\* The numeric value of the cell of row r in the column name: NaN for a cell
\* that is no number.
NumericValue(r, name) == ToNumber(Cell(dataset.rawData[r], name))

\* q is a number other than NaN.
IsNumber(q) == Len(q) = 2 /\ q[1] \in Int /\ q[2] \in Nat \ {0}

\* C16: in every run that has passed the guard of handleTrain, the label
\* vector handed to the numeric core has one entry per dataset row, each 0 or
\* 1, and 1 exactly when the numeric value of the row's target cell is above
\* 0.5 (so 0 for a cell that is no number or is missing); the feature matrix
\* has one row per dataset row, each with one entry per selected feature
\* column, and every entry is a number: the cell's numeric value, or 0 where
\* it has none.
C16_WellFormedData ==
  trainPc = "compute" =>
    /\ Len(trainY) = Len(dataset.rawData)
    /\ Len(trainY) = dataset.rows
    /\ \A r \in DOMAIN trainY :
         LET val == NumericValue(r, config.targetColumn)
         IN  /\ trainY[r] \in {0, 1}
             /\ trainY[r] = 1 <=> (~IsNaN(val) /\ Gt(val, <<1, 2>>))
    /\ Len(trainX) = Len(dataset.rawData)
    /\ \A r \in DOMAIN trainX :
         /\ Len(trainX[r]) = Len(config.featureColumns)
         /\ \A k \in DOMAIN trainX[r] :
              LET val == NumericValue(r, config.featureColumns[k])
              IN  /\ IsNumber(trainX[r][k])
                  /\ trainX[r][k] = IF IsNaN(val) THEN R(0) ELSE val

\* The data extracted from the sheet of five rows, with a text and a missing
\* value among its cells and a target cell of exactly 0.5.
C16_Witness ==
  /\ trainPc = "compute"
  /\ dataset.fileName = "five.xlsx"
  /\ config.targetColumn = "b" /\ config.featureColumns = <<"a">>
  /\ trainY = <<1, 0, 1, 0, 1>>
  /\ trainX = <<<<R(1)>>, <<R(2)>>, <<R(0)>>, <<R(0)>>, <<R(-1)>>>>

\* ------------------------------------------------------------- C17
\* A step of handleReset: the only handler that clears the results.
ResetStep == results # Null /\ results' = Null

\* C17: from every reachable state handleReset leaves the state of a fresh
\* session: stage 'upload', no dataset, no results, no error, not processing,
\* no completed stage, and the configuration of standard scaling, split
\* ratio 0.2, no target, no features and the logistic model.
C17_ResetDiscardsSession ==
  [][ResetStep =>
       /\ currentStage' = "upload"
       /\ dataset' = Null
       /\ results' = Null
       /\ error' = NullString
       /\ isProcessing' = FALSE
       /\ completedStages' = <<>>
       /\ config'.preprocessing = "standard"
       /\ config'.splitRatio = <<1, 5>>
       /\ config'.targetColumn = NullString
       /\ config'.featureColumns = <<>>
       /\ config'.modelType = "logistic"
       /\ DOMAIN config' = DOMAIN initialState.config]_vars

\* A session was reset after a run had completed.
C17_Witness ==
  /\ StateIs(initialState)
  /\ toasted = TrainingComplete

\* ------------------------------------------------------------- C18
\* The way of the row x down the tree from node: "L" for each step to a left
\* child, "R" for each to a right child.
RECURSIVE PathOf(_, _)
PathOf(x, node) ==
  IF "prediction" \in DOMAIN node THEN <<>>
  ELSE IF Leq(R(x[node.feature + 1]), node.threshold)
  THEN <<"L">> \o PathOf(x, node.left)
  ELSE <<"R">> \o PathOf(x, node.right)

\* The node of the tree at the end of the way path from node.
RECURSIVE NodeAt(_, _)
NodeAt(node, path) ==
  IF path = <<>> THEN node
  ELSE NodeAt(IF path[1] = "L" THEN node.left ELSE node.right, Tail(path))

\* The positions of the training rows whose way down the tree starts with
\* path: the rows the node at its end was built from.
RowsAt(path) ==
  SelectSeq([k \in 1..Len(dtX) |-> k],
            LAMBDA k : LET way == PathOf(dtX[k], tree)
                       IN  Len(way) >= Len(path)
                             /\ SubSeq(way, 1, Len(path)) = path)

\* The ways to the leaves the training rows end in.
LeafPaths == {PathOf(dtX[k], tree) : k \in DOMAIN dtX}

\* Two labels share the highest count of y.
TiedMajority(y) ==
  \E a, b \in Range(y) :
    /\ a # b /\ CountOf(y, a) = CountOf(y, b)
    /\ \A c \in Range(y) : CountOf(y, c) <= CountOf(y, a)

\* The label with the highest count of y that the iteration over the count
\* table of y meets first.
FirstMajorityLabel(y) ==
  LET keys == CountKeys(y)
      top == {k \in DOMAIN keys :
                \A c \in Range(y) : CountOf(y, c) <= CountOf(y, keys[k])}
  IN  keys[CHOOSE k \in top : \A j \in top : k <= j]

\* C18: a leaf built from a subset in which two labels share the highest
\* count predicts the one of them that the iteration over the count table of
\* the subset meets first.
C18_TieTakesFirstLabel ==
  dtPc = "trained" =>
    \A path \in LeafPaths :
      LET labels == Pick(RowsAt(path), dtY)
      IN  TiedMajority(labels) =>
            NodeAt(tree, path).prediction = FirstMajorityLabel(labels)

\* ------------------------------------------------------------- C19
\* The ways to the nodes of the tree: the beginnings of the ways to its
\* leaves.
NodePaths ==
  UNION {{SubSeq(path, 1, n) : n \in 0..Len(path)} : path \in LeafPaths}

\* The values of a feature in the rows X, and the pairs of them with no
\* value between.
ValuesOf(X, f) == {X[k][f + 1] : k \in DOMAIN X}
Consecutive(S) ==
  {p \in S \X S : p[1] < p[2] /\ ~\E u \in S : p[1] < u /\ u < p[2]}

\* The candidates of a node built from the rows X, as [feature, threshold]:
\* for each feature the midpoints between consecutive values of it, with
\* rows on both sides.
Candidates(X) ==
  {c \in UNION {{<<f, Div(R(p[1] + p[2]), R(2))>> :
                   p \in Consecutive(ValuesOf(X, f))} :
                f \in 0..(NumFeatures(X) - 1)} :
     /\ \E k \in DOMAIN X : Leq(R(X[k][c[1] + 1]), c[2])
     /\ \E k \in DOMAIN X : Gt(R(X[k][c[1] + 1]), c[2])}

\* The candidate c comes before d in the scan: a lower feature, or the same
\* feature and a lower threshold.
ScannedBefore(c, d) == c[1] < d[1] \/ (c[1] = d[1] /\ Gt(d[2], c[2]))

\* The Gini information gain of the candidate c on the rows X with labels
\* y: the impurity of y less the impurities of the two sides, each weighted
\* with its share of the rows.
GainOf(X, y, c) ==
  LET leftY == Pick(SelectSeq([k \in 1..Len(X) |-> k],
                              LAMBDA k : ~Gt(R(X[k][c[1] + 1]), c[2])), y)
      rightY == Pick(SelectSeq([k \in 1..Len(X) |-> k],
                               LAMBDA k : Gt(R(X[k][c[1] + 1]), c[2])), y)
  IN  Sub(GiniImpurity(y),
          Add(Mul(<<Len(leftY), Len(y)>>, GiniImpurity(leftY)),
              Mul(<<Len(rightY), Len(y)>>, GiniImpurity(rightY))))

\* The node is the one the claim describes for candidates with the gains
\* given, as a set of [candidate, gain], and the labels y.
ChosenAsClaimed(node, gains, y) ==
  LET gaining == {g \in gains : Gt(g[2], R(0))}
      maximal == {g[1] : g \in {g \in gaining :
                                  \A d \in gaining : Geq(g[2], d[2])}}
  IN  IF gaining = {}
      THEN /\ DOMAIN node = {"prediction"}
           /\ \A v \in Range(y) : CountOf(y, v) <= CountOf(y, node.prediction)
      ELSE /\ DOMAIN node = {"feature", "threshold", "left", "right"}
           /\ <<node.feature, node.threshold>> \in maximal
           /\ \A d \in maximal \ {<<node.feature, node.threshold>>} :
                ScannedBefore(<<node.feature, node.threshold>>, d)

\* The node built from the rows X and labels y by the split search is the
\* one the claim describes.
SearchedAsClaimed(node, X, y) ==
  \A gains \in {{<<c, GainOf(X, y, c)>> : c \in Candidates(X)}} :
    ChosenAsClaimed(node, gains, y)

RECURSIVE WellFormed(_, _, _)
WellFormed(node, rows, depth) ==
  /\ depth <= maxDepth
  /\ rows # <<>>
  /\ IF "prediction" \in DOMAIN node
     THEN /\ DOMAIN node = {"prediction"}
          /\ node.prediction \in {0, 1}
          /\ node.prediction \in Range(Pick(rows, dtY))
     ELSE /\ DOMAIN node = {"feature", "threshold", "left", "right"}
          /\ depth < maxDepth
          /\ Len(rows) >= minSamplesSplit
          /\ node.feature \in 0..(Len(dtX[1]) - 1)
          /\ IsNumber(node.threshold)
          /\ LET below == SelectSeq(rows,
                            LAMBDA k : ~Gt(R(dtX[k][node.feature + 1]),
                                           node.threshold))
                 above == SelectSeq(rows,
                            LAMBDA k : Gt(R(dtX[k][node.feature + 1]),
                                          node.threshold))
             IN  /\ Range(below) \cap Range(above) = {}
                 /\ Range(below) \cup Range(above) = Range(rows)
                 /\ WellFormed(node.left, below, depth + 1)
                 /\ WellFormed(node.right, above, depth + 1)

\* C20: for every training set with rows and labels in {0, 1}, every
\* maxDepth >= 0 and minSamplesSplit >= 0, decisionTreeClassifier returns,
\* and what it returns is a finite well-formed tree: leaves with a
\* prediction in {0, 1}, internal nodes with a feature index, a threshold
\* and two children built from two non-empty disjoint parts of the node's
\* rows; no node is deeper than maxDepth, no internal node is at maxDepth or
\* deeper or built from fewer than minSamplesSplit rows.
C20_WellFormedTree ==
  (dtPc # "idle" /\ dtPc # "call" /\ Len(dtX) > 0) =>
    /\ dtPc # "threw"
    /\ WellFormed(tree, [k \in 1..Len(dtX) |-> k], 0)

\* A tree of depth 2: an internal root with an internal child.
C20_Witness ==
  /\ dtPc = "trained" /\ maxDepth = 2
  /\ "left" \in DOMAIN tree
  /\ ("left" \in DOMAIN tree.left \/ "left" \in DOMAIN tree.right)

\* ------------------------------------------------------------- C21
\* The names of the scaler, the fit and the prediction of a configuration.
ScalerOf(method) ==
  IF method = "standard" THEN "standardScaler" ELSE "minMaxScaler"
FitOf(modelType) ==
  IF modelType = "logistic" THEN "logisticRegression"
  ELSE "decisionTreeClassifier"
PredictOf(modelType) ==
  IF modelType = "logistic" THEN "predictLogistic" ELSE "predictDecisionTree"

\* The calls from position k on are the split of the matrix X, the fit on
\* the training part alone, the predictions for the test part and for the
\* training part with the fitted model, and the evaluations.
SplitFitEvaluate(calls, k, X) ==
  LET split == calls[k].out
      model == calls[k + 1].out
      predictions == calls[k + 2].out
      trainPredictions == calls[k + 3].out
  IN  /\ Len(calls) = k + 6
      /\ calls[k].fn = "trainTestSplit"
      /\ calls[k].args = <<X, trainY, config.splitRatio>>
      /\ calls[k + 1].fn = FitOf(config.modelType)
      /\ calls[k + 1].args = <<split.X_train, split.y_train>>
      /\ calls[k + 2].fn = PredictOf(config.modelType)
      /\ calls[k + 2].args = <<split.X_test, model>>
      /\ calls[k + 3].fn = PredictOf(config.modelType)
      /\ calls[k + 3].args = <<split.X_train, model>>
      /\ calls[k + 4].fn = "calculateAccuracy"
      /\ calls[k + 4].args = <<split.y_test, predictions>>
      /\ calls[k + 5].fn = "calculateAccuracy"
      /\ calls[k + 5].args = <<split.y_train, trainPredictions>>
      /\ calls[k + 6].fn = "confusionMatrix"
      /\ calls[k + 6].args = <<split.y_test, predictions>>

\* C21: a run of handleTrain that has evaluated its model has made its
\* calls in one order: the selected scaler, if any, once and on the whole
\* feature matrix; then trainTestSplit on the scaled matrix; then the fit on
\* (X_train, y_train), the predictions for X_test and X_train with the
\* fitted model, the test accuracy and the confusion matrix from (y_test,
\* test predictions) and the train accuracy from (y_train, train
\* predictions).
C21_FixedStepOrder ==
  trainPc = "evaluated" =>
    IF config.preprocessing = "none"
    THEN SplitFitEvaluate(trainCalls, 1, trainX)
    ELSE /\ trainCalls[1].fn = ScalerOf(config.preprocessing)
         /\ trainCalls[1].args = <<trainX>>
         /\ Len(trainCalls[1].args[1]) = dataset.rows
         /\ SplitFitEvaluate(trainCalls, 2, trainCalls[1].out)

\* A run on the sheet of five rows with min-max scaling, whose split has
\* moved the last row to the front of the training rows.
C21_Witness ==
  /\ trainPc = "evaluated"
  /\ dataset.rows = 5 /\ config.preprocessing = "minmax"
  /\ Len(config.featureColumns) = 1
  /\ Len(trainCalls) = 8
  /\ trainCalls[2].out.X_train[1] = trainCalls[1].out[5]
  /\ trainCalls[1].out # trainX

\* ------------------------------------------------------------- C22
\* isProcessing is true exactly while a run of handleTrain is between line
\* 84 and its last setState.
ProcessingIsRunning == isProcessing <=> trainPc # "idle"

\* The place of a run: before line 84, after it, after the extraction, after
\* the evaluation.
PlaceOf(pc) ==
  CASE pc = "idle" -> 0 [] pc = "extract" -> 1 [] pc = "compute" -> 2
    [] pc = "evaluated" -> 3

\* A step taken while isProcessing is true is a step of the run: until the
\* run sets isProcessing back to false, the stage, the dataset, the
\* configuration, the results, the error and the completed stages stay as
\* they are, no notification is shown, and the run moves on.
OnlyTheRunSteps ==
  isProcessing =>
    /\ isProcessing' =>
         /\ UNCHANGED <<currentStage, dataset, config, results, error,
                        completedStages, toasted>>
         /\ PlaceOf(trainPc') > PlaceOf(trainPc)
    /\ ~isProcessing' =>
         /\ trainPc' = "idle"
         /\ toasted' \in {TrainingComplete, TrainingFailed}
         /\ UNCHANGED <<dataset, config>>

\* A run that has not returned has a next step to take: the extraction
\* after line 84, then the calls of the library or, where one of them throws,
\* the catch, then the publication of the results.
RunCanGoOn ==
  trainPc = "compute" =>
    \/ ExtractThrows(dataset, config.featureColumns)
    \/ \E split \in TrainSplits :
         FitThrows(config.modelType, split.X_train, split.y_train)
    \/ \E split \in TrainSplits :
         /\ ~FitThrows(config.modelType, split.X_train, split.y_train)
         /\ ModelPredictions(split.X_test) # {}
         /\ ModelPredictions(split.X_train) # {}

\* C22: no two runs overlap and no other request is processed during a
\* run: isProcessing is true exactly while handleTrain runs, every step
\* taken while it is true is the next step of that run, and every run that
\* sets isProcessing to true sets it back to false, on success and on
\* failure: it always has a next step, and after at most three it returns.
C22_RunsDoNotOverlap ==
  /\ [](ProcessingIsRunning /\ RunCanGoOn)
  /\ [][OnlyTheRunSteps]_vars

\* A second run of a session is at its evaluation, after a first that has
\* failed.
C22_Witness ==
  /\ isProcessing /\ trainPc = "evaluated"
  /\ toasted = TrainingFailed
  /\ "model" \notin Range(completedStages)

\* ------------------------------------------------------------- C23
\* The ratios of the slider of the split step (min 10, max 50, step 5, in
\* hundredths).
SliderRatios == {<<k, 20>> : k \in 2..10}

\* The split of a run leaves rows for the fit and rows for the evaluation.
RowsOnBothSides(split) ==
  /\ Len(split.X_train) >= 1
  /\ Len(split.X_test) >= 1

\* C23: for every dataset the upload step accepts and every ratio of the
\* slider, the split of handleTrain gives the model at least one training row
\* and the evaluator at least one test row, and no run fails for lack of
\* rows.
C23_EverySplitHasRows ==
  /\ (trainPc = "compute" /\ dataset.rows >= 1
        /\ \E r \in SliderRatios :
             Leq(r, config.splitRatio) /\ Geq(r, config.splitRatio)) =>
       \A split \in TrainSplits :
         /\ RowsOnBothSides(split)
         /\ ~FitThrows(config.modelType, split.X_train, split.y_train)
  /\ toasted # TrainingFailed

\* ------------------------------------------------------------- C24
\* The step of a run that ends it in the catch of lines 155-167.
RunFailsStep == isProcessing /\ ~isProcessing' /\ error' # NullString

\* The step of a run that ends it at lines 135-149.
RunSucceedsStep == isProcessing /\ ~isProcessing' /\ error' = NullString

\* A failure changes isProcessing and error alone.
FailureKeepsTheRest ==
  RunFailsStep =>
    UNCHANGED <<results, currentStage, completedStages, dataset, config>>

\* A run that has passed the guard has cleared error before it computes.
StartClearsError ==
  /\ (~isProcessing /\ isProcessing') => error' = NullString
  /\ (isProcessing /\ trainPc # "compute") => error = NullString

\* A success replaces results as a whole by those of this run and moves to
\* the results stage.
SuccessReplacesResults ==
  RunSucceedsStep =>
    /\ results' = ResultsOf(trainCalls)
    /\ results'.trainSize + results'.testSize = dataset.rows
    /\ currentStage' = "results"

\* C24: a run that throws changes only isProcessing (false) and error (set):
\* results, currentStage, completedStages, dataset and config are as before
\* the run, so the results of an earlier successful run stay in place; every
\* later run that passes the guard clears error before it computes; a
\* successful run replaces results as a whole and moves to 'results'.
C24_FailureKeepsResults ==
  [][FailureKeepsTheRest /\ StartClearsError /\ SuccessReplacesResults]_vars

\* A run has failed after an earlier one has succeeded: the earlier results
\* are in place next to the error.
C24_Witness ==
  /\ toasted = TrainingFailed /\ error # NullString
  /\ results # Null /\ ~isProcessing

\* ------------------------------------------------------------- C25
\* Lines 247 and 312: the split view is rendered for a dataset, the results
\* view for results.
SplitHasView == currentStage = "split" => dataset # Null
ResultsHasView == currentStage = "results" => results # Null

\* C25: in every reachable state of the wizard the current stage has a view
\* to render: currentStage = 'split' implies dataset is not null, and
\* currentStage = 'results' implies results is not null.
C25_StageHasView == SplitHasView /\ ResultsHasView

\* ------------------------------------------------------------- C26
\* No name occurs twice in the sequence s.
NoDuplicates(s) == \A i, j \in DOMAIN s : s[i] = s[j] => i = j

\* C26: the target column is never one of the feature columns: in every
\* reachable state, after any sequence of dataset loads, target changes,
\* feature toggles and 'Select All', config.targetColumn is no element of
\* config.featureColumns, and config.featureColumns has no name twice.
C26_TargetIsNoFeature ==
  /\ config.targetColumn \notin Range(config.featureColumns)
  /\ NoDuplicates(config.featureColumns)

\* The target has been changed to the first column and the former target
\* toggled in after the feature left.
C26_Witness ==
  /\ dataset # Null /\ config.targetColumn = "a"
  /\ config.featureColumns = <<"b", "c">>

\* ------------------------------------------------------------- C27
\* C27: completedStages never lists a stage twice: in every reachable state,
\* after any sequence of Next clicks, stage clicks, repeated training runs
\* and resets, each of the five stages occurs at most once in
\* completedStages.
C27_StagesCompletedOnce ==
  \A k \in DOMAIN Stages :
    Cardinality({i \in DOMAIN completedStages :
                   completedStages[i] = Stages[k]}) <= 1

\* ------------------------------------------------------------- C28
\* The preview of the split step, part_002 lines 34-35:
\* Math.floor(dataset.rows * (1 - splitRatio)) and dataset.rows - trainSize.
PreviewTrainSize(ds, splitRatio) ==
  Floor(Mul(R(ds.rows), Sub(R(1), splitRatio)))
PreviewTestSize(ds, splitRatio) == ds.rows - PreviewTrainSize(ds, splitRatio)

\* C28: the train and test row counts of the split step's preview are equal
\* to the trainSize and testSize reported by the training run that follows
\* with the same configuration, and trainSize + testSize is the number of
\* dataset rows.
C28_PreviewIsReported ==
  results # Null =>
    /\ results.trainSize = PreviewTrainSize(dataset, config.splitRatio)
    /\ results.testSize = PreviewTestSize(dataset, config.splitRatio)
    /\ results.trainSize + results.testSize = dataset.rows

\* A run on five rows at the ratio 0.2 has reported four training rows and
\* one test row.
C28_Witness ==
  /\ results # Null /\ dataset.rows = 5
  /\ results.trainSize = 4 /\ results.testSize = 1

\* ------------------------------------------------------------- C29
\* The sum of the numbers f(k) for k in the finite set S.
RECURSIVE SumOver(_, _)
SumOver(S, f) ==
  IF S = {} THEN 0
  ELSE LET k == CHOOSE j \in S : TRUE IN f[k] + SumOver(S \ {k}, f)

\* The sum of the cells of row a of the matrix m, of all its cells, and of
\* the cells of its diagonal.
RowSum(m, a) == SumOver(DOMAIN m[a], m[a])
CellSum(m) == SumOver(DOMAIN m, [a \in DOMAIN m |-> RowSum(m, a)])
DiagonalSum(m) == SumOver(DOMAIN m, [a \in DOMAIN m |-> m[a][a]])

\* The cells of the matrix sum to n, those of row i to the number of
\* positions whose true label is the i-th label, those of the diagonal to the
\* number of matching positions.
SumsAsClaimed ==
  /\ CellSum(matrix) = Len(yTrue)
  /\ \A v \in Observed :
       RowSum(matrix, RankOf(v)) =
         Cardinality({k \in DOMAIN yTrue : yTrue[k] = v})
  /\ DiagonalSum(matrix) =
       Cardinality({k \in DOMAIN yTrue : yTrue[k] = yPred[k]})

\* C29: for equal-length yTrue and yPred of length n, the cells of
\* confusionMatrix(yTrue, yPred) sum to n, the cells of row i sum to the
\* number of positions whose true label is the i-th label, and the diagonal
\* cells sum to the number of matching positions, so that for n > 0 the
\* diagonal sum divided by n equals calculateAccuracy(yTrue, yPred).
C29_MatrixSums ==
  /\ "matrix" \in evDone => SumsAsClaimed
  /\ ({"matrix", "accuracy"} \subseteq evDone /\ Len(yTrue) > 0) =>
       accuracy = Div(R(DiagonalSum(matrix)), R(Len(yTrue)))

\* Both have returned for vectors of three labels that agree in two places
\* of three, one label being predicted only.
C29_Witness ==
  /\ {"matrix", "accuracy"} \subseteq evDone
  /\ yTrue = <<0, 1, 1>> /\ yPred = <<0, 1, 2>>
  /\ DiagonalSum(matrix) = 2 /\ RowSum(matrix, 3) = 0
  /\ accuracy = <<2, 3>>

\* ------------------------------------------------------------- C30
\* isLoading is true as long as a load is in flight, false once all have
\* completed.
LoadingWhileInFlight == isLoading <=> inFlight # <<>>

\* Once all loads have completed, each with a dataset, the dataset handed
\* to onDatasetLoaded last is that of the file chosen last.
LastChosenIsHandedLast ==
  (inFlight = <<>> /\ chosen # <<>> /\ Len(handed) = Len(chosen)) =>
    handed[Len(handed)] = chosen[Len(chosen)]

\* C30: when file loads overlap in DatasetUpload, for every interleaving of
\* the completion callbacks the dataset finally handed to onDatasetLoaded is
\* that of the file chosen last, and isLoading is true as long as any load
\* is still in flight and false once all have completed.
C30_LastChosenWins == LoadingWhileInFlight /\ LastChosenIsHandedLast

=========================================================================
